---- MODULE Spec2Model ----
(***************************************************************************)
(* Veilocity private-state engine: Poseidon constructions, incremental     *)
(* Merkle tree, persistent state manager and the chain synchronisation     *)
(* commands (log scan, indexer snapshot, watch).                           *)
(*                                                                         *)
(* Field elements are symbolic terms: Poseidon is modelled as an ideal     *)
(* (collision-free, arity-separated) hash, so H_k(x) is the term           *)
(* <<"hk", x>>.  A 32-byte string is <<"b", f, k>>: the canonical          *)
(* big-endian encoding of the field element f when k = 0, and the          *)
(* non-canonical byte string f + k * order otherwise.                      *)
(***************************************************************************)
EXTENDS Integers, Sequences, FiniteSets, TLC

VARIABLES tree, db, used_nullifiers, res, chain, cmd, ops, first

vars == <<tree, db, used_nullifiers, res, chain, cmd, ops, first>>

\* ------------------------------------------------------------------ bounds
\* Tree depth of the model (the program uses 20).
TREE_DEPTH == 2
\* Largest deposit amount / balance delta drawn as an input.
MaxAmount == 2
\* Number of distinct withdrawal nullifiers the chain can emit.
MaxNullifiers == 2
\* Largest number of chain events (one event per block).
MaxChain == 3
\* Largest nonce an update_account input carries.
MaxNonce == 1
\* Blocks per log-scan batch of the model (the program uses 10000).
BLOCKS_PER_BATCH == 2
\* Largest number of state-manager operations in a run of SpecApi.
MaxOps == 3
\* Largest number of commands started in a run of SpecSync.
MaxRuns == 2
\* calls made on one PrivateAccount value
MaxCalls == 2
\* Largest number of blocks while the wallet also spends (SpecWallet).
MaxWalletChain == 2
\* distinct leaf values inserted into a MerkleTree used on its own
MaxLeafValue == 3
\* width of the balance type (u128 in the source), scaled down
U128_BITS == 3

MaxLogs == 3

MaxLogBlock == 2

\* Body(v), with v evaluated once and Body applied to its value
Eval(v, Body(_)) == CHOOSE y \in {Body(x) : x \in {v}} : TRUE

\* --------------------------------------------------------- field and hash
F(n) == <<"f", n>>

hash1(a) == <<"h1", a>>

hash2(left, right) == <<"h2", left, right>>

hash3(a, b, c) == <<"h3", a, b, c>>

derive_pubkey(secret) == hash1(secret)

\* a nullifier that leaves the nonce out
compute_nullifier_without_nonce(secret, index, nonce) == hash3(secret, index, F(0))

compute_nullifier(secret, index, nonce) == hash3(secret, index, nonce)

compute_leaf(pubkey, balance, nonce) == hash3(pubkey, balance, nonce)

compute_deposit_commitment(secret, amount) == hash2(secret, amount)

field_to_bytes(f) == <<"b", f, 0>>

bytes_to_field(bytes) == bytes[2]

u128_to_field(value) == F(value)

u64_to_field(value) == F(value)

\* ------------------------------------------------------------ merkle tree
MAX_LEAVES == 2 ^ TREE_DEPTH

RECURSIVE empty_hash(_)
empty_hash(level) ==
    IF level = 0 THEN hash2(F(0), F(0))
    ELSE hash2(empty_hash(level - 1), empty_hash(level - 1))

MerkleTree_new ==
    [leaf_count |-> 0, nodes |-> <<>>, root |-> empty_hash(TREE_DEPTH)]

\* HashMap::insert on the sparse node storage
NodePut(nodes, key, value) ==
    [k \in (DOMAIN nodes) \cup {key} |-> IF k = key THEN value ELSE nodes[k]]

\* a lookup that reads a missing node as zero
NodeGet_or_zero(nodes, level, index) ==
    IF <<level, index>> \in DOMAIN nodes THEN nodes[<<level, index>>] ELSE F(0)

\* HashMap::get(..).unwrap_or(empty_hashes[level])
NodeGet(nodes, level, index) ==
    IF <<level, index>> \in DOMAIN nodes THEN nodes[<<level, index>>]
    ELSE empty_hash(level)

sibling_index(current_index) ==
    IF current_index % 2 = 0 THEN current_index + 1 ELSE current_index - 1

\* the loop of update_leaf from `level` upwards
RECURSIVE UpdatePath(_, _, _, _)
UpdatePath(nodes, level, current_index, current_hash) ==
    IF level = TREE_DEPTH THEN [nodes |-> nodes, root |-> current_hash]
    ELSE LET sibling_hash == NodeGet(nodes, level, sibling_index(current_index))
             parent_index == current_index \div 2
         IN Eval(IF current_index % 2 = 0
                 THEN hash2(current_hash, sibling_hash)
                 ELSE hash2(sibling_hash, current_hash),
                 LAMBDA parent_hash :
                     Eval(NodePut(nodes, <<level + 1, parent_index>>, parent_hash),
                          LAMBDA stored :
                              UpdatePath(stored, level + 1, parent_index, parent_hash)))

update_leaf(t, index, leaf) ==
    Eval(NodePut(t.nodes, <<0, index>>, leaf),
         LAMBDA stored :
             Eval(UpdatePath(stored, 0, index, leaf),
                  LAMBDA r : [leaf_count |-> t.leaf_count, nodes |-> r.nodes,
                              root |-> r.root]))

\* an insert without the capacity test
insert_without_limit(t, leaf) ==
    [ok |-> TRUE, index |-> t.leaf_count,
     tree |-> [update_leaf(t, t.leaf_count, leaf)
                   EXCEPT !.leaf_count = t.leaf_count + 1]]

\* insert: [ok, index, tree]; TreeFull leaves the tree untouched
insert(t, leaf) ==
    IF t.leaf_count >= MAX_LEAVES THEN [ok |-> FALSE, index |-> 0, tree |-> t]
    ELSE [ok |-> TRUE, index |-> t.leaf_count,
          tree |-> [update_leaf(t, t.leaf_count, leaf)
                        EXCEPT !.leaf_count = t.leaf_count + 1]]

RECURSIVE ProofFrom(_, _, _)
ProofFrom(t, level, current_index) ==
    IF level = TREE_DEPTH THEN <<>>
    ELSE <<NodeGet(t.nodes, level, sibling_index(current_index))>>
         \o ProofFrom(t, level + 1, current_index \div 2)

\* a proof made of the nodes on the leaf's own path instead of their siblings
RECURSIVE OwnPathFrom(_, _, _)
OwnPathFrom(t, level, current_index) ==
    IF level = TREE_DEPTH THEN <<>>
    ELSE <<NodeGet(t.nodes, level, current_index)>>
         \o OwnPathFrom(t, level + 1, current_index \div 2)

get_proof_own_path(t, index) == OwnPathFrom(t, 0, index)

get_proof(t, index) == ProofFrom(t, 0, index)

get_leaf(t, index) ==
    IF <<0, index>> \in DOMAIN t.nodes THEN <<t.nodes[<<0, index>>]>> ELSE <<>>

RECURSIVE FoldProof(_, _, _, _)
FoldProof(current_hash, current_index, proof, i) ==
    IF i > Len(proof) THEN current_hash
    ELSE FoldProof(IF current_index % 2 = 0
                   THEN hash2(current_hash, proof[i])
                   ELSE hash2(proof[i], current_hash),
                   current_index \div 2, proof, i + 1)

verify_proof(leaf, index, proof, root) ==
    IF Len(proof) # TREE_DEPTH THEN FALSE
    ELSE FoldProof(leaf, index, proof, 1) = root

\* --------------------------------------------------------------- accounts
\* the wallet's secret (the local holder) and another depositor's secret
MySecret == F(42)

ForeignSecret == F(99)

Secrets == {MySecret, ForeignSecret}

Some(x) == <<x>>

None == <<>>

\* ------------------------------------------------------- u128 arithmetic
U128_MAX == 2 ^ U128_BITS - 1

\* a + b on u128: a build with overflow checks panics (None), one without
\* wraps
u128_add(a, b, overflow_checks) ==
    IF a + b <= U128_MAX THEN Some(a + b)
    ELSE IF overflow_checks THEN None
    ELSE Some((a + b) % (U128_MAX + 1))

u128_mul(a, b, overflow_checks) ==
    IF a * b <= U128_MAX THEN Some(a * b)
    ELSE IF overflow_checks THEN None
    ELSE Some((a * b) % (U128_MAX + 1))

u128_saturating_add(a, b) == IF a + b <= U128_MAX THEN a + b ELSE U128_MAX

\* PrivateAccount::with_balance
with_balance(secret, index, balance) ==
    [pubkey |-> field_to_bytes(derive_pubkey(secret)), balance |-> balance,
     nonce |-> 0, index |-> index]

\* PrivateAccount::compute_leaf
account_compute_leaf(account) ==
    compute_leaf(bytes_to_field(account.pubkey), u128_to_field(account.balance),
                 u64_to_field(account.nonce))

\* a credit that also counts as a spend
credit_advancing_nonce(account, amount) ==
    [account EXCEPT !.balance = u128_saturating_add(@, amount), !.nonce = @ + 1]

\* PrivateAccount::credit
credit(account, amount) ==
    [account EXCEPT !.balance = u128_saturating_add(@, amount)]

\* a debit that subtracts without the balance test
debit_unchecked(account, amount) ==
    [account |-> [account EXCEPT !.balance = IF @ >= amount THEN @ - amount ELSE 0,
                                 !.nonce = @ + 1],
     returned |-> TRUE]

\* PrivateAccount::debit
debit(account, amount) ==
    IF account.balance >= amount
    THEN [account |-> [account EXCEPT !.balance = @ - amount, !.nonce = @ + 1],
          returned |-> TRUE]
    ELSE [account |-> account, returned |-> FALSE]

\* ---------------------------------------------------------- state manager
\* The store: the accounts table (pubkey and leaf_index both UNIQUE), the
\* nullifiers table and the sync_state row 'last_synced_block'.
EmptyDb == [accounts |-> {}, nullifiers |-> {}, checkpoint |-> None]

\* A state manager value: the in-memory tree, the open store and the
\* in-memory nullifier cache.
SM == [tree |-> tree, db |-> db, used |-> used_nullifiers]

RECURSIVE FillEmpty(_, _)
FillEmpty(t, leaf_index) ==
    IF t.leaf_count < leaf_index
    THEN Eval(insert(t, hash2(F(0), F(0))),
              LAMBDA r : IF r.ok THEN FillEmpty(r.tree, leaf_index)
                         ELSE [ok |-> FALSE, tree |-> t])
    ELSE [ok |-> TRUE, tree |-> t]

\* the account loop of load_state, rows in ascending leaf_index order
RECURSIVE LoadAccounts(_, _)
LoadAccounts(t, rows) ==
    IF rows = {} THEN [ok |-> TRUE, tree |-> t]
    ELSE Eval(CHOOSE r \in rows : \A o \in rows : r.index <= o.index,
              LAMBDA row :
                  Eval(FillEmpty(t, row.index),
                       LAMBDA filled :
                           IF ~filled.ok THEN [ok |-> FALSE, tree |-> t]
                           ELSE Eval(insert(filled.tree, account_compute_leaf(row)),
                                     LAMBDA ins :
                                         IF ins.ok
                                         THEN LoadAccounts(ins.tree, rows \ {row})
                                         ELSE [ok |-> FALSE, tree |-> t])))

load_state(store) ==
    Eval(LoadAccounts(MerkleTree_new, store.accounts),
         LAMBDA loaded :
             [ok |-> loaded.ok,
              sm |-> [tree |-> loaded.tree, db |-> store, used |-> store.nullifiers]])

\* StateManager::new on an existing database
StateManager_new(store) == load_state(store)

state_root(sm) == sm.tree.root

leaf_count(sm) == sm.tree.leaf_count

is_nullifier_used(sm, nullifier) == nullifier \in sm.used

\* mutant of mark_nullifier_used: the duplicate check is missing
mark_nullifier_used_unchecked(sm, nullifier, fail) ==
    IF fail THEN [sm |-> [sm EXCEPT !.used = @ \cup {nullifier}], status |-> "Storage"]
    ELSE [sm |-> [sm EXCEPT !.used = @ \cup {nullifier},
                            !.db.nullifiers = @ \cup {nullifier}],
          status |-> "Ok"]

\* `fail` is the outcome of the durable write (db.execute returning Err)
mark_nullifier_used(sm, nullifier, fail) ==
    IF nullifier \in sm.used THEN [sm |-> sm, status |-> "NullifierUsed"]
    ELSE LET cached == [sm EXCEPT !.used = @ \cup {nullifier}]
         IN IF fail \/ nullifier \in sm.db.nullifiers
            THEN [sm |-> cached, status |-> "Storage"]
            ELSE [sm |-> [cached EXCEPT !.db.nullifiers = @ \cup {nullifier}],
                  status |-> "Ok"]

create_account(sm, secret, initial_balance, fail) ==
    LET account == with_balance(secret, sm.tree.leaf_count, initial_balance)
    IN Eval(insert(sm.tree, account_compute_leaf(account)),
            LAMBDA ins :
                IF ~ins.ok THEN [sm |-> sm, status |-> "TreeFull", account |-> None]
                ELSE IF \/ fail
                        \/ \E r \in sm.db.accounts :
                               r.pubkey = account.pubkey \/ r.index = account.index
                THEN [sm |-> [sm EXCEPT !.tree = ins.tree], status |-> "Storage",
                      account |-> None]
                ELSE [sm |-> [sm EXCEPT !.tree = ins.tree,
                                        !.db.accounts = @ \cup {account}],
                      status |-> "Ok", account |-> Some(account)])

get_account(sm, pubkey) ==
    IF \E r \in sm.db.accounts : r.pubkey = pubkey
    THEN Some(CHOOSE r \in sm.db.accounts : r.pubkey = pubkey)
    ELSE None

get_account_by_index(sm, index) ==
    IF \E r \in sm.db.accounts : r.index = index
    THEN Some(CHOOSE r \in sm.db.accounts : r.index = index)
    ELSE None

\* mutant of update_account: the row is written, the tree leaf is not
update_account_row_only(sm, account, fail) ==
    IF fail THEN [sm |-> sm, status |-> "Storage"]
    ELSE [sm |-> [sm EXCEPT !.db.accounts =
                      {IF r.index = account.index
                       THEN [r EXCEPT !.balance = account.balance,
                                      !.nonce = account.nonce]
                       ELSE r : r \in sm.db.accounts}],
          status |-> "Ok"]

\* an update that deletes the row of an account spent down to zero
update_account_dropping_empty(sm, account, fail) ==
    IF fail THEN [sm |-> sm, status |-> "Storage"]
    ELSE IF account.balance = 0
    THEN [sm |-> [sm EXCEPT !.db.accounts =
                      {r \in sm.db.accounts : r.index # account.index}],
          status |-> "Ok"]
    ELSE update_account_row_only(sm, account, fail)

update_account(sm, account, fail) ==
    IF fail THEN [sm |-> sm, status |-> "Storage"]
    ELSE LET rows == {IF r.index = account.index
                      THEN [r EXCEPT !.balance = account.balance,
                                     !.nonce = account.nonce]
                      ELSE r : r \in sm.db.accounts}
         IN [sm |-> [sm EXCEPT !.db.accounts = rows,
                               !.tree = update_leaf(sm.tree, account.index,
                                                    account_compute_leaf(account))],
             status |-> "Ok"]

get_merkle_proof(sm, index) == get_proof(sm.tree, index)

get_sync_checkpoint(sm) == sm.db.checkpoint

set_sync_checkpoint_behind(sm, block, fail) ==
    [sm |-> [sm EXCEPT !.db.checkpoint = Some(block - 1)], status |-> "Ok"]

set_sync_checkpoint(sm, block, fail) ==
    IF fail THEN [sm |-> sm, status |-> "Storage"]
    ELSE [sm |-> [sm EXCEPT !.db.checkpoint = Some(block)], status |-> "Ok"]

insert_leaf(sm, leaf) ==
    Eval(insert(sm.tree, leaf),
         LAMBDA ins :
             IF ins.ok
             THEN [sm |-> [sm EXCEPT !.tree = ins.tree], status |-> "Ok",
                   index |-> Some(sm.tree.leaf_count)]
             ELSE [sm |-> sm, status |-> "TreeFull", index |-> None])

\* ----------------------------------------------------------------- inputs
Amounts == 1..MaxAmount

\* withdrawal nullifiers the chain can carry (32-byte strings)
Nullifiers ==
    {field_to_bytes(compute_nullifier(MySecret, u64_to_field(i), u64_to_field(0))) :
        i \in 0..(MaxNullifiers - 1)}

\* raw leaves handed to insert_leaf: deposit commitments and the empty leaf
RawLeaves ==
    {compute_deposit_commitment(s, u128_to_field(1)) : s \in Secrets}
        \cup {hash2(F(0), F(0))}

NoSnapshot == [leaves |-> <<>>, deposits |-> <<>>, nullifiers |-> <<>>, last_block |-> 0]

\* the local variables of the running command: `mode` names the command,
\* `pc` its position; `applied` (the events applied by this run) and
\* `fromEmpty` (the run started on an empty store) are history only
IdleCmd ==
    [mode |-> "none", pc |-> "idle", current_block |-> 0, last_block |-> 0,
     from_block |-> 0, to_block |-> 0, next |-> 0, own_deposits_found |-> 0,
     snap |-> NoSnapshot, applied |-> <<>>, fromEmpty |-> FALSE]

Init ==
    /\ tree = MerkleTree_new
    /\ db = EmptyDb
    /\ used_nullifiers = {}
    /\ res = [op |-> "init", status |-> "Ok", arg |-> None, clean |-> TRUE]
    /\ chain = <<>>
    /\ cmd = IdleCmd
    /\ ops = 0
    /\ first = None

\* one more state-manager operation, within the budget of the run
Op ==
    /\ ops < MaxOps
    /\ ops' = ops + 1

\* install the state manager value an operation returns
Install(sm) ==
    /\ tree' = sm.tree
    /\ db' = sm.db
    /\ used_nullifiers' = sm.used

\* ------------------------------------------- state manager used directly
ApiCreateAccount ==
    \E secret \in Secrets, initial_balance \in 0..MaxAmount, fail \in BOOLEAN :
        \E r \in {create_account(SM, secret, initial_balance, fail)} :
           /\ Op
           /\ Install(r.sm)
           /\ res' = [op |-> "create_account", status |-> r.status, arg |-> r.account,
                      clean |-> res.clean /\ r.status = "Ok"]
           /\ UNCHANGED <<chain, cmd, first>>

\* callers read the record with get_account, change balance and nonce and
\* hand it back (transfer.rs, withdraw.rs, sync.rs)
ApiUpdateAccount ==
    \E secret \in Secrets, balance \in 0..MaxAmount, bump \in 0..1, fail \in BOOLEAN :
        LET found == get_account(SM, field_to_bytes(derive_pubkey(secret)))
        IN /\ Op
           /\ found # None
           /\ found[1].nonce + bump <= MaxNonce
           /\ \E account \in {[found[1] EXCEPT !.balance = balance,
                                                  !.nonce = @ + bump]} :
              \E r \in {update_account(SM, account, fail)} :
                 /\ Install(r.sm)
                 /\ res' = [op |-> "update_account", status |-> r.status,
                            arg |-> Some(account),
                            clean |-> res.clean /\ r.status = "Ok"]
           /\ UNCHANGED <<chain, cmd, first>>

\* update_account handed a record whose index has no row in the store
ApiUpdateUnknown ==
    \E secret \in Secrets, index \in 0..(MAX_LEAVES - 1), balance \in 0..MaxAmount,
       fail \in BOOLEAN :
        /\ Op
        /\ get_account_by_index(SM, index) = None
        /\ \E account \in {with_balance(secret, index, balance)} :
           \E r \in {update_account(SM, account, fail)} :
              /\ Install(r.sm)
              /\ res' = [op |-> "update_account", status |-> r.status,
                         arg |-> Some(account),
                         clean |-> res.clean /\ r.status = "Ok"]
        /\ UNCHANGED <<chain, cmd, first>>

ApiInsertLeaf ==
    \E leaf \in RawLeaves :
        \E r \in {insert_leaf(SM, leaf)} :
           /\ Op
           /\ Install(r.sm)
           /\ res' = [op |-> "insert_leaf", status |-> r.status, arg |-> r.index,
                      clean |-> res.clean /\ r.status = "Ok"]
           /\ UNCHANGED <<chain, cmd, first>>

ApiMarkNullifier ==
    \E nullifier \in Nullifiers, fail \in BOOLEAN :
        \E r \in {mark_nullifier_used(SM, nullifier, fail)} :
           /\ Op
           /\ Install(r.sm)
           /\ res' = [op |-> "mark_nullifier_used", status |-> r.status,
                      arg |-> Some(nullifier),
                      clean |-> res.clean /\ r.status = "Ok"]
           /\ UNCHANGED <<chain, cmd, first>>

\* drop the state manager and open the same database again
ApiReopen ==
    \E r \in {StateManager_new(db)} :
       /\ Op
       /\ r.ok
       /\ Install(r.sm)
       /\ res' = [op |-> "reopen", status |-> "Ok", arg |-> None, clean |-> res.clean]
       /\ UNCHANGED <<chain, cmd, first>>

NextApi ==
    \/ ApiCreateAccount
    \/ ApiUpdateAccount
    \/ ApiInsertLeaf
    \/ ApiMarkNullifier
    \/ ApiReopen

SpecApi == Init /\ [][NextApi]_vars

\* the state manager with callers that also hand update_account records the
\* store does not hold
NextApiAny ==
    \/ NextApi
    \/ ApiUpdateUnknown

SpecApiAny == Init /\ [][NextApiAny]_vars

\* ------------------------------------------------------------ the chain
\* One event per block; block n holds chain[n].  The vault assigns deposit
\* leaf indices consecutively and rejects a nullifier it has seen.
DepositKinds ==
    {[commitment |-> field_to_bytes(compute_deposit_commitment(MySecret, u128_to_field(a))),
      amount |-> a] : a \in Amounts}
        \cup {[commitment |-> field_to_bytes(
                   compute_deposit_commitment(ForeignSecret, u128_to_field(1))),
               amount |-> 1]}

NoBytes == field_to_bytes(F(0))

DepositEvent(commitment, amount, leaf_index) ==
    [kind |-> "deposit", commitment |-> commitment, amount |-> amount,
     leaf_index |-> leaf_index, nullifier |-> NoBytes]

WithdrawalEvent(nullifier) ==
    [kind |-> "withdrawal", commitment |-> NoBytes, amount |-> 0,
     leaf_index |-> 0, nullifier |-> nullifier]

deposit_count(events) ==
    Cardinality({n \in 1..Len(events) : events[n].kind = "deposit"})

ChainDeposit ==
    \E d \in DepositKinds :
        /\ Len(chain) < MaxChain
        /\ chain' = Append(chain, DepositEvent(d.commitment, d.amount,
                                               deposit_count(chain)))
        /\ UNCHANGED <<tree, db, used_nullifiers, res, cmd, ops, first>>

ChainWithdrawal ==
    \E nullifier \in Nullifiers :
        /\ Len(chain) < MaxChain
        /\ \A n \in 1..Len(chain) :
               chain[n].kind = "withdrawal" => chain[n].nullifier # nullifier
        /\ chain' = Append(chain, WithdrawalEvent(nullifier))
        /\ UNCHANGED <<tree, db, used_nullifiers, res, cmd, ops, first>>

\* VaultReader::get_block_number
get_block_number == Len(chain)

\* ----------------------------------------------------- the indexer's view
\* IndexerState after run_sync_loop has processed blocks 0..last_block
RECURSIVE ZeroFill(_, _)
ZeroFill(leaves, leaf_index) ==
    IF Len(leaves) < leaf_index THEN ZeroFill(Append(leaves, NoBytes), leaf_index)
    ELSE leaves

RECURSIVE IndexerLeaves(_, _)
IndexerLeaves(events, n) ==
    IF n = 0 THEN <<>>
    ELSE LET before == IndexerLeaves(events, n - 1)
         IN IF events[n].kind = "deposit"
            THEN Append(ZeroFill(before, events[n].leaf_index), events[n].commitment)
            ELSE before

IndexerState(last_block) ==
    [leaves |-> IndexerLeaves(chain, last_block),
     deposits |-> SelectSeq(SubSeq(chain, 1, last_block), LAMBDA e : e.kind = "deposit"),
     nullifiers |-> SelectSeq(SubSeq(chain, 1, last_block),
                              LAMBDA e : e.kind = "withdrawal"),
     last_block |-> last_block]

\* ------------------------------------------------------------------- sync
DeploymentBlock == 0

Running == cmd.pc \in {"apply", "checkpoint", "nullifiers", "finish", "poll"}

\* history: the state a run leaves behind, as later queries see it
Summary ==
    [root |-> tree.root, leaf_count |-> tree.leaf_count,
     nullifiers |-> used_nullifiers,
     account |-> get_account(SM, field_to_bytes(derive_pubkey(MySecret)))]

\* a command starts: one more run; the first run's outcome is remembered
StartRun ==
    /\ ~Running
    /\ ops < MaxRuns
    /\ ops' = ops + 1
    /\ first' = IF ops = 1
                THEN Some([mode |-> cmd.mode, stream |-> cmd.applied,
                           summary |-> Summary])
                ELSE first

check_deposit_ownership(secret, deposit) ==
    field_to_bytes(compute_deposit_commitment(secret, u128_to_field(deposit.amount)))
        = deposit.commitment

\* a gap that is not filled
FillGap_skipped(sm, deposit_index) == [sm |-> sm, status |-> "Ok"]

RECURSIVE FillGap(_, _)
FillGap(sm, deposit_index) ==
    IF sm.tree.leaf_count < deposit_index
    THEN Eval(insert_leaf(sm, hash2(F(0), F(0))),
              LAMBDA r : IF r.status = "Ok" THEN FillGap(r.sm, deposit_index)
                         ELSE [sm |-> sm, status |-> r.status])
    ELSE [sm |-> sm, status |-> "Ok"]

process_deposit(sm, deposit) ==
    LET expected_index == leaf_count(sm)
        deposit_index == deposit.leaf_index
    IN IF deposit_index < expected_index THEN [sm |-> sm, status |-> "Ok"]
       ELSE Eval(FillGap(sm, deposit_index),
                 LAMBDA filled :
                     IF filled.status # "Ok" THEN [sm |-> sm, status |-> filled.status]
                     ELSE Eval(insert_leaf(filled.sm, bytes_to_field(deposit.commitment)),
                               LAMBDA r : [sm |-> r.sm, status |-> r.status]))

create_account_from_deposit(sm, secret, deposit, overflow_checks) ==
    LET existing == get_account(sm, field_to_bytes(derive_pubkey(secret)))
        sum == u128_add(existing[1].balance, deposit.amount, overflow_checks)
    IN IF existing # None
       THEN IF sum = None THEN [sm |-> sm, status |-> "Overflow"]
            ELSE Eval(update_account(
                          sm, [existing[1] EXCEPT !.balance = sum[1]], FALSE),
                      LAMBDA r : [sm |-> r.sm, status |-> r.status])
       ELSE Eval(create_account(sm, secret, deposit.amount, FALSE),
                 LAMBDA r : [sm |-> r.sm, status |-> r.status])

\* the Withdrawal arm of the event loops
apply_withdrawal(sm, event) ==
    IF ~is_nullifier_used(sm, event.nullifier)
    THEN Eval(mark_nullifier_used(sm, event.nullifier, FALSE),
              LAMBDA r : [sm |-> r.sm, status |-> r.status])
    ELSE [sm |-> sm, status |-> "Ok"]

\* one iteration of the event loop of sync_via_rpc
rpc_apply_event(sm, event, overflow_checks) ==
    IF event.kind = "deposit"
    THEN LET is_ours == check_deposit_ownership(MySecret, event)
         IN Eval(process_deposit(sm, event),
                 LAMBDA r :
                     IF r.status # "Ok" THEN r
                     ELSE IF is_ours
                     THEN create_account_from_deposit(r.sm, MySecret, event,
                                                      overflow_checks)
                     ELSE r)
    ELSE apply_withdrawal(sm, event)

\* one iteration of the event loop of watch
watch_apply_event(sm, event) ==
    IF event.kind = "deposit" THEN process_deposit(sm, event)
    ELSE apply_withdrawal(sm, event)


\* the deposit the /deposits response lists for leaf i, if any
FindDeposit(deposits, i) ==
    IF \E k \in 1..Len(deposits) : deposits[k].leaf_index = i
    THEN Some(deposits[CHOOSE k \in 1..Len(deposits) :
                           /\ deposits[k].leaf_index = i
                           /\ \A j \in 1..(k - 1) : deposits[j].leaf_index # i])
    ELSE None

\* one iteration of the leaf loop of sync_via_indexer (i counts from 0)
indexer_apply_leaf(sm, snap, i, own_deposits_found, overflow_checks) ==
    LET leaf_arr == snap.leaves[i + 1]
        deposit == FindDeposit(snap.deposits, i)
        mine == /\ deposit # None
                /\ field_to_bytes(compute_deposit_commitment(
                       MySecret, u128_to_field(deposit[1].amount))) = leaf_arr
        found == own_deposits_found + 1
    IN Eval(IF leaf_count(sm) <= i THEN insert_leaf(sm, bytes_to_field(leaf_arr))
            ELSE [sm |-> sm, status |-> "Ok", index |-> None],
            LAMBDA ins :
              IF ins.status # "Ok"
              THEN [sm |-> sm, status |-> ins.status,
                    own_deposits_found |-> own_deposits_found]
              ELSE IF ~mine
              THEN [sm |-> ins.sm, status |-> "Ok",
                    own_deposits_found |-> own_deposits_found]
              ELSE LET existing ==
                           get_account(ins.sm, field_to_bytes(derive_pubkey(MySecret)))
                       expected_balance ==
                           u128_mul(found, deposit[1].amount, overflow_checks)
                   IN Eval(IF existing # None
                           THEN IF expected_balance = None
                                THEN [sm |-> sm, status |-> "Overflow"]
                                ELSE IF existing[1].balance < expected_balance[1]
                                THEN update_account(
                                         ins.sm,
                                         [existing[1] EXCEPT
                                              !.balance = expected_balance[1]],
                                         FALSE)
                                ELSE [sm |-> ins.sm, status |-> "Ok"]
                           ELSE create_account(ins.sm, MySecret, deposit[1].amount,
                                               FALSE),
                           LAMBDA r : [sm |-> r.sm, status |-> r.status,
                                       own_deposits_found |-> found]))

\* one iteration of the nullifier loop of sync_via_indexer
indexer_mark_nullifier(sm, nullifier) ==
    IF ~is_nullifier_used(sm, nullifier)
    THEN Eval(mark_nullifier_used(sm, nullifier, FALSE),
              LAMBDA r : [sm |-> r.sm, status |-> r.status])
    ELSE [sm |-> sm, status |-> "Ok"]

Min(a, b) == IF a < b THEN a ELSE b

Result(op, status) == [op |-> op, status |-> status, arg |-> None, clean |-> res.clean]

\* the command returns the error of the failed call; its state manager is dropped.
\* A durable write that fails inside a command ends it the same way (Abort).
Failed(op, status) ==
    /\ cmd' = [cmd EXCEPT !.pc = "aborted"]
    /\ res' = Result(op, status)
    /\ UNCHANGED <<tree, db, used_nullifiers>>

\* --------------------------------------------------- sync_via_rpc (log scan)
RpcStart ==
    /\ StartRun
    /\ \E opened \in {StateManager_new(db)} :
      \E in_sync \in BOOLEAN :
        LET current_block == get_block_number
            checkpoint == get_sync_checkpoint(opened.sm)
            last_synced_block == IF checkpoint = None THEN DeploymentBlock
                                 ELSE checkpoint[1]
            from_block == last_synced_block + 1
            started == [IdleCmd EXCEPT !.mode = "rpc",
                                       !.current_block = current_block,
                                       !.last_block = last_synced_block,
                                       !.fromEmpty = (db = EmptyDb)]
        IN /\ opened.ok
           /\ Install(opened.sm)
           /\ cmd' = IF in_sync \/ from_block > current_block
                     THEN [started EXCEPT !.pc = "done"]
                     ELSE [started EXCEPT
                               !.pc = "apply",
                               !.from_block = from_block,
                               !.to_block = Min(from_block + BLOCKS_PER_BATCH - 1,
                                                current_block),
                               !.next = from_block]
           /\ res' = Result("sync_via_rpc", "Ok")
           /\ UNCHANGED chain

RpcApplyEvent ==
    /\ cmd.mode = "rpc"
    /\ cmd.pc = "apply"
    /\ cmd.next <= cmd.to_block
    /\ \E event \in {chain[cmd.next]}, overflow_checks \in BOOLEAN :
       \E r \in {rpc_apply_event(SM, event, overflow_checks)} :
          IF r.status = "Ok"
          THEN /\ Install(r.sm)
               /\ cmd' = [cmd EXCEPT
                              !.next = @ + 1,
                              !.applied = Append(@, event),
                              !.own_deposits_found =
                                  IF /\ event.kind = "deposit"
                                     /\ check_deposit_ownership(MySecret, event)
                                  THEN @ + 1 ELSE @]
               /\ res' = Result("sync_via_rpc", "Ok")
          ELSE Failed("sync_via_rpc", r.status)
    /\ UNCHANGED <<chain, ops, first>>

RpcCheckpoint ==
    /\ cmd.mode = "rpc"
    /\ cmd.pc = "apply"
    /\ cmd.next > cmd.to_block
    /\ \E r \in {set_sync_checkpoint(SM, cmd.to_block, FALSE)} :
       LET from_block == cmd.to_block + 1
       IN /\ Install(r.sm)
          /\ cmd' = IF from_block <= cmd.current_block
                    THEN [cmd EXCEPT
                              !.from_block = from_block,
                              !.to_block = Min(from_block + BLOCKS_PER_BATCH - 1,
                                               cmd.current_block),
                              !.next = from_block]
                    ELSE [cmd EXCEPT !.from_block = from_block, !.pc = "done"]
          /\ res' = Result("sync_via_rpc", "Ok")
    /\ UNCHANGED <<chain, ops, first>>

\* ------------------------------------------------ sync_via_indexer (snapshot)
\* where the command stands once leaf i-1 and nullifier j-1 have been handled
IndexerPc(snap, pc, n) ==
    IF pc = "apply" /\ n < Len(snap.leaves) THEN [pc |-> "apply", next |-> n]
    ELSE IF pc = "apply" THEN
        IF Len(snap.nullifiers) > 0 THEN [pc |-> "nullifiers", next |-> 0]
        ELSE [pc |-> "finish", next |-> 0]
    ELSE IF n < Len(snap.nullifiers) THEN [pc |-> "nullifiers", next |-> n]
    ELSE [pc |-> "finish", next |-> 0]

\* /sync is answered when the indexer has processed b1 blocks, /deposits
\* (a second request) when it has processed b2 >= b1
IndexerStart ==
    /\ StartRun
    /\ \E opened \in {StateManager_new(db)} :
       \E b1 \in 0..get_block_number :
       \E b2 \in b1..get_block_number :
       \E snap \in {[IndexerState(b1) EXCEPT !.deposits = IndexerState(b2).deposits]} :
        LET at == IndexerPc(snap, "apply", 0)
        IN /\ opened.ok
           /\ Install(opened.sm)
           /\ cmd' = [IdleCmd EXCEPT !.mode = "indexer", !.pc = at.pc,
                                     !.next = at.next, !.snap = snap,
                                     !.fromEmpty = (db = EmptyDb)]
           /\ res' = Result("sync_via_indexer", "Ok")
           /\ UNCHANGED chain

IndexerApplyLeaf ==
    /\ cmd.mode = "indexer"
    /\ cmd.pc = "apply"
    /\ \E overflow_checks \in BOOLEAN :
       \E r \in {indexer_apply_leaf(SM, cmd.snap, cmd.next, cmd.own_deposits_found,
                                   overflow_checks)} :
       LET i == cmd.next
           deposit == FindDeposit(cmd.snap.deposits, i)
           at == IndexerPc(cmd.snap, "apply", i + 1)
       IN IF r.status = "Ok"
          THEN /\ Install(r.sm)
               /\ cmd' = [cmd EXCEPT
                              !.pc = at.pc, !.next = at.next,
                              !.own_deposits_found = r.own_deposits_found,
                              !.applied = Append(@, DepositEvent(
                                  cmd.snap.leaves[i + 1],
                                  IF deposit = None THEN 0 ELSE deposit[1].amount,
                                  i))]
               /\ res' = Result("sync_via_indexer", "Ok")
          ELSE Failed("sync_via_indexer", r.status)
    /\ UNCHANGED <<chain, ops, first>>

IndexerMarkNullifier ==
    /\ cmd.mode = "indexer"
    /\ cmd.pc = "nullifiers"
    /\ \E nullifier \in {cmd.snap.nullifiers[cmd.next + 1].nullifier} :
       \E r \in {indexer_mark_nullifier(SM, nullifier)} :
       LET at == IndexerPc(cmd.snap, "nullifiers", cmd.next + 1)
       IN IF r.status = "Ok"
          THEN /\ Install(r.sm)
               /\ cmd' = [cmd EXCEPT !.pc = at.pc, !.next = at.next,
                                     !.applied = Append(@, WithdrawalEvent(nullifier))]
               /\ res' = Result("sync_via_indexer", "Ok")
          ELSE Failed("sync_via_indexer", r.status)
    /\ UNCHANGED <<chain, ops, first>>

IndexerFinish ==
    /\ cmd.mode = "indexer"
    /\ cmd.pc = "finish"
    /\ \E r \in {set_sync_checkpoint(SM, cmd.snap.last_block, FALSE)} :
          /\ Install(r.sm)
          /\ cmd' = [cmd EXCEPT !.pc = "done"]
          /\ res' = Result("sync_via_indexer", "Ok")
    /\ UNCHANGED <<chain, ops, first>>

\* ------------------------------------------------------------------ watch
WatchStart ==
    /\ StartRun
    /\ \E opened \in {StateManager_new(db)} :
       /\ opened.ok
       /\ Install(opened.sm)
       /\ cmd' = [IdleCmd EXCEPT !.mode = "watch", !.pc = "poll",
                                 !.last_block = get_block_number,
                                 !.fromEmpty = (db = EmptyDb)]
       /\ res' = Result("watch", "Ok")
       /\ UNCHANGED chain

WatchPoll ==
    /\ cmd.mode = "watch"
    /\ cmd.pc = "poll"
    /\ get_block_number > cmd.last_block
    /\ cmd' = [cmd EXCEPT !.pc = "apply", !.current_block = get_block_number,
                          !.from_block = cmd.last_block + 1,
                          !.to_block = get_block_number,
                          !.next = cmd.last_block + 1]
    /\ res' = Result("watch", "Ok")
    /\ UNCHANGED <<tree, db, used_nullifiers, chain, ops, first>>

WatchApplyEvent ==
    /\ cmd.mode = "watch"
    /\ cmd.pc = "apply"
    /\ cmd.next <= cmd.to_block
    /\ \E event \in {chain[cmd.next]} :
       \E r \in {watch_apply_event(SM, event)} :
          IF r.status = "Ok"
          THEN /\ Install(r.sm)
               /\ cmd' = [cmd EXCEPT !.next = @ + 1, !.applied = Append(@, event)]
               /\ res' = Result("watch", "Ok")
          ELSE Failed("watch", r.status)
    /\ UNCHANGED <<chain, ops, first>>

WatchCheckpoint ==
    /\ cmd.mode = "watch"
    /\ cmd.pc = "apply"
    /\ cmd.next > cmd.to_block
    /\ \E r \in {set_sync_checkpoint(SM, cmd.current_block, FALSE)} :
          /\ Install(r.sm)
          /\ cmd' = [cmd EXCEPT !.pc = "poll", !.last_block = cmd.current_block]
          /\ res' = Result("watch", "Ok")
    /\ UNCHANGED <<chain, ops, first>>

\* the running command ends early: a failed chain or indexer request, a
\* failed durable write, Ctrl+C or a crash.  Nothing in memory survives.
Abort ==
    /\ Running
    /\ cmd' = [cmd EXCEPT !.pc = "aborted"]
    /\ res' = Result(cmd.mode, "Aborted")
    /\ UNCHANGED <<tree, db, used_nullifiers, chain, ops, first>>

NextSync ==
    \/ ChainDeposit
    \/ ChainWithdrawal
    \/ RpcStart
    \/ RpcApplyEvent
    \/ RpcCheckpoint
    \/ IndexerStart
    \/ IndexerApplyLeaf
    \/ IndexerMarkNullifier
    \/ IndexerFinish
    \/ WatchStart
    \/ WatchPoll
    \/ WatchApplyEvent
    \/ WatchCheckpoint
    \/ Abort

SpecSync == Init /\ [][NextSync]_vars

\* C25: no sync command panics on protocol-level input: no step of a sync
\* command ends in the abort of an overflowing balance addition
C25_NoPanic ==
    res.status # "Overflow"

\* ------------------------------------------- a failed get_all_events request
\* sync_via_rpc: `vault.get_all_events(&filter).await?` at the head of a batch
\* returns the error to the caller of the command
RpcFetchFailed ==
    /\ cmd.mode = "rpc"
    /\ cmd.pc = "apply"
    /\ cmd.next = cmd.from_block
    /\ Failed("sync_via_rpc", "Network")
    /\ UNCHANGED <<chain, ops, first>>

\* watch: the same `?` on the request of the new block range
WatchFetchFailed ==
    /\ cmd.mode = "watch"
    /\ cmd.pc = "apply"
    /\ cmd.next = cmd.from_block
    /\ Failed("watch", "Network")
    /\ UNCHANGED <<chain, ops, first>>

NextSyncNet ==
    \/ NextSync
    \/ RpcFetchFailed
    \/ WatchFetchFailed

SpecSyncNet == Init /\ [][NextSyncNet]_vars

\* C24: a network error while fetching a batch does not end the sync: the
\* command is still running on the same block range (to be retried), no event
\* of the batch has been applied and the checkpoint is the one of the last
\* committed batch
C24_FetchErrorRetried ==
    [][res'.status = "Network"
          => /\ cmd'.pc = "apply"
             /\ cmd'.from_block = cmd.from_block
             /\ cmd'.to_block = cmd.to_block
             /\ cmd'.next = cmd.from_block
             /\ tree' = tree
             /\ db' = db
             /\ used_nullifiers' = used_nullifiers]_vars

\* the part of C24 that the commands keep: nothing of the failed batch is
\* applied and the checkpoint stays where the last committed batch put it
FetchErrorAppliesNothing ==
    [][res'.status = "Network"
          => /\ cmd'.applied = cmd.applied
             /\ tree' = tree
             /\ db' = db
             /\ used_nullifiers' = used_nullifiers]_vars

\* ------------------------------------------------------------------ claims
\* the stored accounts of the state manager, as get_account returns them
Accounts == db.accounts

\* C1: reopening the store after any sequence of successful create_account,
\* update_account, insert_leaf and mark_nullifier_used operations yields the
\* same root, the same leaf count, the same account set and the same
\* nullifier set as the state manager that was closed.
C1_ReopenSameState ==
    [][(res'.op = "reopen" /\ ops' = ops + 1 /\ res.clean)
          => /\ tree'.root = tree.root
             /\ tree'.leaf_count = tree.leaf_count
             /\ db'.accounts = db.accounts
             /\ used_nullifiers' = used_nullifiers]_vars

\* C2: for every stored account the tree leaf at account.index is
\* H3(pubkey, balance, nonce) of the stored record, and the Merkle proof of
\* that index verifies against the current root.
C2_AccountLeafInTree ==
    \A a \in Accounts :
        /\ get_leaf(tree, a.index) = <<account_compute_leaf(a)>>
        /\ verify_proof(account_compute_leaf(a), a.index,
                        get_merkle_proof(SM, a.index), state_root(SM))

\* C2 witness: an account that was updated after its creation (its stored
\* nonce advanced) sits in a tree of at least two leaves.
C2_Witness ==
    /\ res.op = "update_account"
    /\ res.status = "Ok"
    /\ \E a \in Accounts : a.nonce > 0 /\ a.balance > 0
    /\ tree.leaf_count >= 2

\* C3: the first mark_nullifier_used(n) succeeds and makes
\* is_nullifier_used(n) true; a second one returns NullifierUsed and leaves
\* the in-memory set and the stored table unchanged.
C3_MarkNullifierOnce ==
    [][(res'.op = "mark_nullifier_used" /\ ops' = ops + 1)
          => LET n == res'.arg[1]
             IN /\ n \in used_nullifiers
                    => /\ res'.status = "NullifierUsed"
                       /\ used_nullifiers' = used_nullifiers
                       /\ db' = db
                /\ n \notin used_nullifiers
                    => /\ res'.status \in {"Ok", "Storage"}
                       /\ is_nullifier_used([tree |-> tree', db |-> db',
                                             used |-> used_nullifiers'], n)
                       /\ res'.status = "Ok" => n \in db'.nullifiers]_vars

\* C3 witness: a nullifier was marked successfully and the second mark of
\* the same nullifier was rejected.
C3_Witness ==
    /\ res.op = "mark_nullifier_used"
    /\ res.status = "NullifierUsed"
    /\ res.arg[1] \in db.nullifiers

\* C4: the nullifier set is append-only: once is_nullifier_used(n) is true
\* it stays true, also across failed storage writes and close/reopen.
C4_NullifiersAppendOnly ==
    [][\A n \in Nullifiers :
          is_nullifier_used(SM, n)
              => is_nullifier_used([tree |-> tree', db |-> db',
                                    used |-> used_nullifiers'], n)]_vars

\* C37: a create_account that returns an error (tree full, pubkey already
\* stored, storage failure) leaves root, leaf count and account rows as they
\* were; a successful one has stored the row whose leaf it inserted; no two
\* stored accounts share a pubkey
C37_CreateAccountAtomic ==
    [][res'.op = "create_account"
          => /\ res'.status # "Ok"
                  => /\ tree'.root = tree.root
                     /\ tree'.leaf_count = tree.leaf_count
                     /\ db'.accounts = db.accounts
             /\ res'.status = "Ok"
                  => /\ res'.arg[1] \in db'.accounts
                     /\ get_leaf(tree', res'.arg[1].index)
                            = Some(account_compute_leaf(res'.arg[1]))
             /\ \A a \in db'.accounts : \A b \in db'.accounts :
                    a.pubkey = b.pubkey => a = b]_vars

\* C23: update_account for an account whose index has no row in the store
\* returns an account-not-found error and changes neither the stored accounts
\* nor the tree.
C23_UpdateUnknownAccount ==
    [][(/\ res'.op = "update_account"
        /\ get_account_by_index(SM, res'.arg[1].index) = None)
          => /\ res'.status = "AccountNotFound"
             /\ db'.accounts = db.accounts
             /\ tree' = tree]_vars

\* ------------------------------------------------ claims about the sync paths
MyPubkey == field_to_bytes(derive_pubkey(MySecret))

\* the deposits among the applied events, and those of them the local
\* secret owns
Deposits(events) == SelectSeq(events, LAMBDA e : e.kind = "deposit")

OwnDeposits(events) ==
    SelectSeq(events, LAMBDA e : e.kind = "deposit"
                                 /\ check_deposit_ownership(MySecret, e))

RECURSIVE SumAmounts(_)
SumAmounts(events) ==
    IF events = <<>> THEN 0 ELSE events[1].amount + SumAmounts(Tail(events))

\* the tree that holds exactly the given leaves (as bytes), in that order
RECURSIVE TreeOf(_)
TreeOf(leaves) ==
    IF leaves = <<>> THEN MerkleTree_new
    ELSE insert(TreeOf(SubSeq(leaves, 1, Len(leaves) - 1)),
                bytes_to_field(leaves[Len(leaves)])).tree

\* a sync run (log scan or snapshot) that started on an empty store and has
\* not failed
SyncFromEmpty ==
    /\ cmd.mode \in {"rpc", "indexer"}
    /\ cmd.fromEmpty
    /\ cmd.pc # "aborted"

\* C5: sync from an empty store that observes one deposit at leaf_index 0
\* with the local secret's commitment ends with leaf count 1, an account with
\* balance = amount, nonce 0 and index 0, and the root of the tree holding
\* only that commitment at position 0.
C5_OwnDepositAtZero ==
    (/\ SyncFromEmpty
     /\ Len(cmd.applied) = 1
     /\ Len(OwnDeposits(cmd.applied)) = 1
     /\ cmd.applied[1].leaf_index = 0)
        => /\ leaf_count(SM) = 1
           /\ get_account(SM, MyPubkey)
                  = Some([pubkey |-> MyPubkey, balance |-> cmd.applied[1].amount,
                          nonce |-> 0, index |-> 0])
           /\ state_root(SM) = TreeOf(<<cmd.applied[1].commitment>>).root

\* C6: after sync (log scan or snapshot) has applied deposit events, the
\* leaf count is the largest leaf_index observed in a deposit plus one, also
\* when some deposits are the holder's own.
C6_LeafCountIsMaxIndexPlusOne ==
    (SyncFromEmpty /\ Deposits(cmd.applied) # <<>>)
        => \E d \in {Deposits(cmd.applied)} :
              /\ \E k \in 1..Len(d) : leaf_count(SM) = d[k].leaf_index + 1
              /\ \A k \in 1..Len(d) : d[k].leaf_index < leaf_count(SM)

\* C7: applying the same event stream a second time (the batch re-applied
\* after an interruption, or the sync re-run) leaves the root, the leaf
\* count, the nullifier set and the holder's account as the first
\* application left them.
C7_SyncIdempotent ==
    (/\ first # None
     /\ cmd.mode \in {"rpc", "indexer"}
     /\ cmd.pc # "aborted"
     /\ first[1].mode = cmd.mode
     /\ first[1].stream # <<>>
     /\ cmd.applied = first[1].stream)
        => Summary = first[1].summary

\* C8: in snapshot sync, log-scan sync and watch mode alike, the local
\* account exists (was credited) exactly when one of the deposits applied
\* carries the commitment H2(secret, amount) of the local secret.
C8_OwnershipTestedEverywhere ==
    (/\ cmd.mode \in {"rpc", "indexer", "watch"}
     /\ cmd.fromEmpty
     /\ cmd.pc # "aborted")
        => (OwnDeposits(cmd.applied) # <<>> <=> get_account(SM, MyPubkey) # None)

\* C9: after a sync from an empty store the holder's balance is the sum of
\* the amounts of the own deposits applied, each counted once; with only
\* foreign deposits there is no local account.
C9_BalanceIsSumOfOwnDeposits ==
    SyncFromEmpty
        => \E own \in {OwnDeposits(cmd.applied)} :
              IF own = <<>> THEN get_account(SM, MyPubkey) = None
              ELSE /\ get_account(SM, MyPubkey) # None
                   /\ get_account(SM, MyPubkey)[1].balance = SumAmounts(own)

\* C10: a snapshot with leaves L, nullifier list N and last_block b applied
\* to an empty store yields leaf_count = Len(L), the root of the tree
\* holding exactly L in order, the nullifier set N and checkpoint b.
C10_SnapshotApplied ==
    (cmd.mode = "indexer" /\ cmd.fromEmpty /\ cmd.pc = "done")
        => /\ leaf_count(SM) = Len(cmd.snap.leaves)
           /\ state_root(SM) = TreeOf(cmd.snap.leaves).root
           /\ used_nullifiers = {cmd.snap.nullifiers[k].nullifier :
                                     k \in 1..Len(cmd.snap.nullifiers)}
           /\ get_sync_checkpoint(SM) = Some(cmd.snap.last_block)

\* the local state reflects the event of block n
Reflected(event) ==
    IF event.kind = "withdrawal" THEN is_nullifier_used(SM, event.nullifier)
    ELSE /\ get_leaf(tree, event.leaf_index) = Some(bytes_to_field(event.commitment))
         /\ check_deposit_ownership(MySecret, event)
                => get_account(SM, MyPubkey) # None

\* C11: whenever a block b is stored as the sync checkpoint, the tree
\* leaves, the nullifier set and the holder account reflect every deposit
\* and withdrawal event of the blocks up to b, in every sync mode and after
\* a restart.
C11_CheckpointReflectsState ==
    get_sync_checkpoint(SM) # None
        => \A n \in 1..get_sync_checkpoint(SM)[1] : Reflected(chain[n])

\* C12: the stored sync checkpoint is monotone: every write stores a value
\* greater than or equal to the value stored before.
C12_CheckpointMonotone ==
    [][get_sync_checkpoint(SM) # None
          => /\ db'.checkpoint # None
             /\ db'.checkpoint[1] >= get_sync_checkpoint(SM)[1]]_vars

\* C31: in the log scan the checkpoint of a batch is written only when every
\* event of the batch has been applied, and it is the end of that batch; a step
\* that applies an event or interrupts the run leaves the stored checkpoint
\* alone; the next log scan starts at the stored checkpoint + 1.
C31_CheckpointAfterBatch ==
    [][/\ (cmd.mode = "rpc" /\ cmd.pc = "apply" /\ db'.checkpoint # db.checkpoint)
            => /\ cmd.next > cmd.to_block
               /\ db'.checkpoint = Some(cmd.to_block)
               /\ Len(cmd.applied) >= cmd.to_block - cmd.from_block + 1
               /\ SubSeq(cmd.applied,
                         Len(cmd.applied) - (cmd.to_block - cmd.from_block),
                         Len(cmd.applied))
                    = SubSeq(chain, cmd.from_block, cmd.to_block)
       /\ (cmd.pc # "apply" /\ cmd'.mode = "rpc" /\ cmd'.pc = "apply"
              /\ db.checkpoint # None)
            => /\ cmd'.from_block = db.checkpoint[1] + 1
               /\ cmd'.next = cmd'.from_block]_vars

\* a log scan interrupted after the event of block 3, with the batch 1..2
\* committed, has been started again and stands at block 3
C31_Witness ==
    /\ ops = 2
    /\ first # None
    /\ first[1].mode = "rpc"
    /\ Len(first[1].stream) = 3
    /\ cmd.mode = "rpc"
    /\ cmd.pc = "apply"
    /\ db.checkpoint = Some(2)
    /\ cmd.from_block = 3
    /\ cmd.next = 3

\* C32: a log scan that found the checkpoint (or deployment block) below the
\* chain head and has completed has scanned exactly the blocks from there to
\* the head, in batches of at most BLOCKS_PER_BATCH blocks, and has stored the
\* head as the checkpoint
C32_ScanRange ==
    /\ (cmd.mode = "rpc" /\ cmd.pc = "apply")
          => /\ cmd.from_block <= cmd.to_block
             /\ cmd.to_block <= cmd.current_block
             /\ cmd.to_block - cmd.from_block + 1 <= BLOCKS_PER_BATCH
    /\ (cmd.mode = "rpc" /\ cmd.pc = "done" /\ cmd.last_block < cmd.current_block)
          => /\ db.checkpoint = Some(cmd.current_block)
             /\ cmd.applied = SubSeq(chain, cmd.last_block + 1, cmd.current_block)

\* the same for a log scan that has run its batch loop to the end
ScanToHead ==
    (cmd.mode = "rpc" /\ cmd.pc = "done" /\ cmd.from_block > cmd.current_block)
        => /\ db.checkpoint = Some(cmd.current_block)
           /\ cmd.applied = SubSeq(chain, cmd.last_block + 1, cmd.current_block)

\* ------------------------------------------- PrivateAccount used directly
\* The account value lives in res.arg together with the last call's amount and
\* the value before the call; `first` keeps the call before that one.
Call(op, status, account, amount, before) ==
    [op |-> op, status |-> status,
     arg |-> Some([account |-> account, amount |-> amount, before |-> before]),
     clean |-> TRUE]

InitAccount ==
    /\ tree = MerkleTree_new
    /\ db = EmptyDb
    /\ used_nullifiers = {}
    /\ chain = <<>>
    /\ cmd = IdleCmd
    /\ ops = 0
    /\ first = None
    /\ \E balance \in 0..U128_MAX, nonce \in 0..MaxNonce :
         \E account \in {[with_balance(MySecret, 0, balance) EXCEPT !.nonce = nonce]} :
            res = Call("new", "Ok", account, 0, account)

AccountCredit ==
    /\ ops < MaxCalls
    /\ ops' = ops + 1
    /\ \E amount \in 0..U128_MAX :
         \E account \in {credit(res.arg[1].account, amount)} :
            res' = Call("credit", "Ok", account, amount, res.arg[1].account)
    /\ first' = Some(res)
    /\ UNCHANGED <<tree, db, used_nullifiers, chain, cmd>>

AccountDebit ==
    /\ ops < MaxCalls
    /\ ops' = ops + 1
    /\ \E amount \in 0..U128_MAX :
         \E r \in {debit(res.arg[1].account, amount)} :
            res' = Call("debit", IF r.returned THEN "true" ELSE "false",
                        r.account, amount, res.arg[1].account)
    /\ first' = Some(res)
    /\ UNCHANGED <<tree, db, used_nullifiers, chain, cmd>>

NextAccount == AccountCredit \/ AccountDebit

SpecAccount == InitAccount /\ [][NextAccount]_vars

\* C15: debit(amount) with balance >= amount lowers the balance by amount, raises
\* the nonce by exactly 1 and returns true; otherwise it returns false and leaves
\* balance, nonce and index as they were.
C15_DebitContract ==
    res.op = "debit" =>
        LET before == res.arg[1].before
            after == res.arg[1].account
            amount == res.arg[1].amount
        IN IF before.balance >= amount
           THEN /\ res.status = "true"
                /\ after.balance = before.balance - amount
                /\ after.nonce = before.nonce + 1
           ELSE /\ res.status = "false"
                /\ after.balance = before.balance
                /\ after.nonce = before.nonce
                /\ after.index = before.index

\* both arms of debit have been taken: a refused debit after an accepted one
C15_Witness ==
    /\ res.op = "debit" /\ res.status = "false"
    /\ first # None /\ first[1].op = "debit" /\ first[1].status = "true"
    /\ first[1].arg[1].amount > 0

\* debit(a) directly after credit(a)
CreditThenDebit ==
    /\ res.op = "debit"
    /\ first # None
    /\ first[1].op = "credit"
    /\ first[1].arg[1].amount = res.arg[1].amount

CreditKeepsNonce ==
    res.op = "credit" => res.arg[1].account.nonce = res.arg[1].before.nonce

\* C16 as stated: after credit(a) then debit(a) the balance is the balance before
\* the credit and the nonce is the original nonce plus 1, for every balance and
\* every amount; credit alone never changes the nonce.
C16_CreditDebitRoundTrip ==
    /\ CreditThenDebit =>
          /\ res.arg[1].account.balance = first[1].arg[1].before.balance
          /\ res.arg[1].account.nonce = first[1].arg[1].before.nonce + 1
    /\ CreditKeepsNonce

\* C16 restricted: the round trip holds whenever balance + a fits in the balance
\* type; when it does not, credit stops at the largest value and debit(a) leaves
\* that value minus a, with the nonce still advanced by exactly 1.
C16_RoundTripWithoutSaturation ==
    /\ CreditThenDebit =>
          LET original == first[1].arg[1].before
              a == res.arg[1].amount
          IN /\ res.arg[1].account.nonce = original.nonce + 1
             /\ res.arg[1].account.balance =
                    IF original.balance + a <= U128_MAX THEN original.balance
                    ELSE U128_MAX - a
    /\ CreditKeepsNonce

\* a round trip that returned to a positive balance without saturating
C16_Witness ==
    /\ CreditThenDebit
    /\ res.arg[1].amount > 0
    /\ first[1].arg[1].before.balance > 0
    /\ first[1].arg[1].before.balance + res.arg[1].amount <= U128_MAX
    /\ res.status = "true"

\* a step of the log-scan loops whose only effect on the tree is that of
\* process_deposit: the event just applied is a deposit that is not credited
DepositProcessed ==
    /\ cmd.pc = "apply"
    /\ cmd.mode \in {"rpc", "watch"}
    /\ Len(cmd'.applied) = Len(cmd.applied) + 1
    /\ chain[cmd.next].kind = "deposit"
    /\ cmd.mode = "rpc" => ~check_deposit_ownership(MySecret, chain[cmd.next])

RECURSIVE InsertAll(_, _)
InsertAll(t, leaves) ==
    IF leaves = <<>> THEN t
    ELSE InsertAll(insert(t, bytes_to_field(leaves[1])).tree, Tail(leaves))

\* the event loop of one batch over the loop's locals: a deposit fills the
\* gap below its leaf_index with zero bytes, then pushes its commitment and
\* inserts it (a failed insert is dropped: `let _ =`); a withdrawal pushes its
\* nullifier and its record
RECURSIVE index_events(_, _)
index_events(local, events) ==
    IF events = <<>> THEN local
    ELSE LET event == events[1]
             filled == ZeroFill(local.leaves, event.leaf_index)
             gap == SubSeq(filled, Len(local.leaves) + 1, Len(filled))
         IN IF event.kind = "deposit"
            THEN index_events(
                   [local EXCEPT
                      !.leaves = Append(filled, event.commitment),
                      !.tree = insert(InsertAll(local.tree, gap),
                                      bytes_to_field(event.commitment)).tree,
                      !.deposits = Append(local.deposits, event)],
                   Tail(events))
            ELSE index_events(
                   [local EXCEPT
                      !.nullifiers = Append(local.nullifiers, event.nullifier),
                      !.withdrawals = Append(local.withdrawals, event)],
                   Tail(events))

\* the write scope at the end of a batch, left after the root alone is stored
publish_root_only(shared, local, to_block) ==
    [shared EXCEPT !.state_root = field_to_bytes(local.tree.root),
                   !.last_block = to_block]

\* the write scope at the end of a batch: every field is stored under one
\* acquisition of the write lock
publish(shared, local, to_block) ==
    [shared EXCEPT !.state_root = field_to_bytes(local.tree.root),
                   !.leaves = local.leaves,
                   !.deposits = local.deposits,
                   !.withdrawals = local.withdrawals,
                   !.nullifiers = local.nullifiers,
                   !.last_block = to_block]

\* ------------------------------------------ the indexer's run_sync_loop
\* `cmd` holds the loop's locals, `tree` its Merkle tree, and res.arg the
\* shared IndexerState as a reader of /health or /sync finds it between two
\* write-lock scopes of the loop; res.status is the outcome of the last step.
U8_MAX == 255

\* ((synced_blocks as f64 / total_blocks as f64) * 100.0) as u8: the cast
\* truncates and saturates at 255 (for the block numbers of this model the
\* floating-point product truncates to the integer quotient)
sync_progress_of(from_block, current_block, deployment_block) ==
    LET total_blocks == IF current_block > deployment_block
                        THEN current_block - deployment_block ELSE 0
        synced_blocks == IF from_block > deployment_block
                         THEN from_block - deployment_block ELSE 0
    IN IF total_blocks > 0
       THEN Min((synced_blocks * 100) \div total_blocks, U8_MAX)
       ELSE 100

Shared(status, s) ==
    [op |-> "run_sync_loop", status |-> status, arg |-> Some(s), clean |-> TRUE]

\* IndexerState::new and the locals before the first iteration
InitIndexer ==
    /\ tree = MerkleTree_new
    /\ db = EmptyDb
    /\ used_nullifiers = {}
    /\ chain = <<>>
    /\ ops = 0
    /\ first = None
    /\ cmd = [IdleCmd EXCEPT !.mode = "service", !.pc = "top",
                             !.from_block = DeploymentBlock]
    /\ res = Shared("Ok", [state_root |-> field_to_bytes(MerkleTree_new.root),
                           leaves |-> <<>>, deposits |-> <<>>, withdrawals |-> <<>>,
                           nullifiers |-> <<>>, last_block |-> 0,
                           is_syncing |-> TRUE, sync_progress |-> 0])

\* get_block_number fails: warn, sleep, continue
LoopBlockNumberFailed ==
    /\ cmd.mode = "service"
    /\ cmd.pc = "top"
    /\ res' = [res EXCEPT !.status = "BlockNumber"]
    /\ UNCHANGED <<tree, db, used_nullifiers, chain, cmd, ops, first>>

\* the head of an iteration: the block number is read and the first write
\* scope stores the progress
LoopProgress ==
    /\ cmd.mode = "service"
    /\ cmd.pc = "top"
    /\ \E current_block \in {get_block_number} :
         /\ cmd' = [cmd EXCEPT !.pc = "gate", !.current_block = current_block]
         /\ res' = Shared("Ok",
                [res.arg[1] EXCEPT
                    !.sync_progress = sync_progress_of(cmd.from_block, current_block,
                                                       DeploymentBlock),
                    !.is_syncing = cmd.from_block < current_block])
    /\ UNCHANGED <<tree, db, used_nullifiers, chain, ops, first>>

\* from_block > current_block: the second write scope, then sleep
LoopSynced ==
    /\ cmd.mode = "service"
    /\ cmd.pc = "gate"
    /\ cmd.from_block > cmd.current_block
    /\ cmd' = [cmd EXCEPT !.pc = "top"]
    /\ res' = Shared("Ok", [res.arg[1] EXCEPT !.is_syncing = FALSE,
                                              !.sync_progress = 100])
    /\ UNCHANGED <<tree, db, used_nullifiers, chain, ops, first>>

\* get_all_events fails: warn, sleep 2 s, continue with the same from_block
LoopFetchFailed ==
    /\ cmd.mode = "service"
    /\ cmd.pc = "gate"
    /\ cmd.from_block <= cmd.current_block
    /\ cmd' = [cmd EXCEPT !.pc = "top"]
    /\ res' = [res EXCEPT !.status = "Network"]
    /\ UNCHANGED <<tree, db, used_nullifiers, chain, ops, first>>

\* the batch from_block..to_block is fetched, its events are processed and
\* the third write scope publishes the result
LoopBatch ==
    /\ cmd.mode = "service"
    /\ cmd.pc = "gate"
    /\ cmd.from_block <= cmd.current_block
    /\ \E to_block \in {Min(cmd.from_block + BLOCKS_PER_BATCH - 1, cmd.current_block)} :
       \E local \in {index_events([tree |-> tree,
                                    leaves |-> res.arg[1].leaves,
                                    deposits |-> res.arg[1].deposits,
                                    withdrawals |-> res.arg[1].withdrawals,
                                    nullifiers |-> res.arg[1].nullifiers],
                                   SubSeq(chain, IF cmd.from_block = 0 THEN 1 ELSE cmd.from_block,
                                          to_block))} :
         /\ tree' = local.tree
         /\ res' = Shared("Ok", publish(res.arg[1], local, to_block))
         /\ cmd' = [cmd EXCEPT !.pc = "top", !.to_block = to_block,
                               !.from_block = to_block + 1]
    /\ UNCHANGED <<db, used_nullifiers, chain, ops, first>>

NextIndexer ==
    \/ ChainDeposit
    \/ ChainWithdrawal
    \/ LoopBlockNumberFailed
    \/ LoopProgress
    \/ LoopSynced
    \/ LoopFetchFailed
    \/ LoopBatch

SpecIndexer == InitIndexer /\ [][NextIndexer]_vars

\* the indexer's side of a failed fetch: the loop goes on with the same
\* from_block and the published state is as the last batch left it
RetryKeepsBatch ==
    [][(res'.status = "Network" /\ res.status # "Network")
          => /\ cmd'.pc = "top"
             /\ cmd'.from_block = cmd.from_block
             /\ res'.arg = res.arg
             /\ tree' = tree]_vars

\* C28: in every state a reader of /health or /sync can observe while the sync
\* loop runs, sync_progress is within 0..100
C28_ProgressInRange ==
    res.arg[1].sync_progress \in 0..100

\* the progress published once the iteration has passed the from_block >
\* current_block test
ProgressAfterGate ==
    cmd.pc = "top" => res.arg[1].sync_progress \in 0..100

\* C39: every state a reader finds under the read lock is the state at a batch
\* boundary: state_root is the root of the tree built from the served leaves,
\* the nullifier list has one entry per served withdrawal, in order, leaves,
\* deposits and withdrawals are those of the blocks up to last_block, and
\* last_block is the end of the last processed batch
C39_BatchBoundarySnapshot ==
    LET s == res.arg[1]
    IN /\ s.state_root = field_to_bytes(TreeOf(s.leaves).root)
       /\ Len(s.nullifiers) = Len(s.withdrawals)
       /\ \A k \in 1..Len(s.withdrawals) : s.nullifiers[k] = s.withdrawals[k].nullifier
       /\ s.last_block <= Len(chain)
       /\ s.leaves = IndexerState(s.last_block).leaves
       /\ s.deposits = IndexerState(s.last_block).deposits
       /\ s.withdrawals = IndexerState(s.last_block).nullifiers
       /\ \/ s.last_block = 0 /\ cmd.from_block \in {DeploymentBlock, 1}
          \/ s.last_block = cmd.from_block - 1

\* a reader arrives while the loop is inside its second batch: the first batch
\* (a deposit and a withdrawal) is served, the third block is not
C39_Witness ==
    /\ cmd.pc = "gate"
    /\ cmd.from_block = 3
    /\ cmd.current_block = 3
    /\ res.arg[1].last_block = 2
    /\ Len(res.arg[1].leaves) = 1
    /\ Len(res.arg[1].withdrawals) = 1
    /\ Len(chain) = 3
    /\ chain[3].kind = "deposit"

\* ------------------------------------ the two builders of the deposit tree
\* One event sequence is fed to both: `chain` holds the events fed so far,
\* tree/db/used_nullifiers the state manager of the log scan (cmd.mode says
\* which event loop, sync_via_rpc or watch), res.arg the locals of the
\* indexer's loop, res.status the outcome of the log scan's event.  The
\* leaf_index of a deposit is any position, not only the next one.
InitBuild ==
    /\ tree = MerkleTree_new
    /\ db = EmptyDb
    /\ used_nullifiers = {}
    /\ chain = <<>>
    /\ ops = 0
    /\ first = None
    /\ \E mode \in {"rpc", "watch"} : cmd = [IdleCmd EXCEPT !.mode = mode, !.pc = "apply"]
    /\ res = [op |-> "build", status |-> "Ok", clean |-> TRUE,
              arg |-> Some([tree |-> MerkleTree_new, leaves |-> <<>>, deposits |-> <<>>,
                            withdrawals |-> <<>>, nullifiers |-> <<>>])]

FeedEvent ==
    /\ Len(chain) < MaxChain
    /\ res.status = "Ok"
    /\ \E event \in {DepositEvent(d.commitment, d.amount, leaf_index) :
                         d \in DepositKinds, leaf_index \in 0..(MAX_LEAVES - 1)}
                      \cup {WithdrawalEvent(nullifier) : nullifier \in Nullifiers} :
       \E r \in {IF cmd.mode = "rpc" THEN rpc_apply_event(SM, event, FALSE)
                 ELSE watch_apply_event(SM, event)} :
       \E local \in {index_events(res.arg[1], <<event>>)} :
         /\ chain' = Append(chain, event)
         /\ IF r.status = "Ok" THEN Install(r.sm)
            ELSE UNCHANGED <<tree, db, used_nullifiers>>
         /\ res' = [res EXCEPT !.status = r.status, !.arg = Some(local)]
    /\ UNCHANGED <<cmd, ops, first>>

SpecBuild == InitBuild /\ [][FeedEvent]_vars

\* the deposits of the events fed so far carry the indices the vault assigns
ConsecutiveIndices ==
    \A n \in 1..Len(chain) :
        chain[n].kind = "deposit" => chain[n].leaf_index = deposit_count(SubSeq(chain, 1, n - 1))

\* C40: for one event sequence the indexer's tree (its leaves and state_root,
\* hence the tree a snapshot sync rebuilds from the served leaves) equals the
\* log scan's tree: same leaf count, same leaf at every position, same root
C40_SameTree ==
    (res.op = "build" /\ res.status = "Ok")
        => LET local == res.arg[1]
           IN /\ local.tree.leaf_count = tree.leaf_count
              /\ Len(local.leaves) = tree.leaf_count
              /\ \A i \in 0..(MAX_LEAVES - 1) :
                    /\ get_leaf(local.tree, i) = get_leaf(tree, i)
                    /\ i < Len(local.leaves)
                          => get_leaf(tree, i) = Some(bytes_to_field(local.leaves[i + 1]))
              /\ local.tree.root = tree.root
              /\ TreeOf(local.leaves).root = tree.root

\* what holds: the two trees are equal when the event loop is the one of watch
\* (process_deposit alone) and the deposits carry consecutive indices
SameTreeOnVaultEvents ==
    (res.op = "build" /\ res.status = "Ok" /\ cmd.mode = "watch" /\ ConsecutiveIndices)
        => LET local == res.arg[1]
           IN /\ local.tree = tree
              /\ TreeOf(local.leaves) = tree

\* ------------------------------------------------- the prover's witnesses
\* `first` holds the arguments of the constructors, res the value returned by
\* the last call.
field_to_hex(f) == <<"0x", field_to_bytes(f)>>

HexPath(path) == [i \in 1..Len(path) |-> field_to_hex(path[i])]

WithdrawWitness_new(root, nullifier, amount, recipient, secret, balance, nonce, index, path) ==
    IF Len(path) # TREE_DEPTH THEN [status |-> "InvalidInput", witness |-> None]
    ELSE [status |-> "Ok",
          witness |-> Some([state_root |-> field_to_hex(root),
                            nullifier |-> field_to_hex(nullifier),
                            amount |-> field_to_hex(amount),
                            recipient |-> field_to_hex(recipient),
                            secret |-> field_to_hex(secret),
                            balance |-> field_to_hex(balance),
                            nonce |-> field_to_hex(nonce),
                            index |-> field_to_hex(index),
                            path |-> HexPath(path)])]

TransferWitness_new(old_state_root, nullifier, sender_secret, sender_balance, sender_nonce, sender_index, sender_path, recipient_pubkey, amount) ==
    IF Len(sender_path) # TREE_DEPTH THEN [status |-> "InvalidInput", witness |-> None]
    ELSE [status |-> "Ok",
          witness |-> Some([old_state_root |-> field_to_hex(old_state_root),
                            nullifier |-> field_to_hex(nullifier),
                            sender_secret |-> field_to_hex(sender_secret),
                            sender_balance |-> field_to_hex(sender_balance),
                            sender_nonce |-> field_to_hex(sender_nonce),
                            sender_index |-> field_to_hex(sender_index),
                            sender_path |-> HexPath(sender_path),
                            recipient_pubkey |-> field_to_hex(recipient_pubkey),
                            amount |-> field_to_hex(amount)])]

FullTransferWitness_first_path_only(a) ==
    IF Len(a.sender_path_old) # TREE_DEPTH THEN [status |-> "InvalidInput", witness |-> None]
    ELSE [status |-> "Ok",
          witness |-> Some([sender_path_old |-> HexPath(a.sender_path_old),
                            sender_path_new |-> HexPath(a.sender_path_new),
                            recipient_path_old |-> HexPath(a.recipient_path_old),
                            recipient_path_new |-> HexPath(a.recipient_path_new)])]

\* the arguments are passed as one record `a`
FullTransferWitness_new(a) ==
    IF \E path \in {a.sender_path_old, a.sender_path_new,
                    a.recipient_path_old, a.recipient_path_new} :
           Len(path) # TREE_DEPTH
    THEN [status |-> "InvalidInput", witness |-> None]
    ELSE [status |-> "Ok",
          witness |-> Some([old_state_root |-> field_to_hex(a.old_state_root),
                            new_state_root |-> field_to_hex(a.new_state_root),
                            nullifier |-> field_to_hex(a.nullifier),
                            sender_secret |-> field_to_hex(a.sender_secret),
                            sender_balance |-> field_to_hex(a.sender_balance),
                            sender_nonce |-> field_to_hex(a.sender_nonce),
                            sender_index |-> field_to_hex(a.sender_index),
                            sender_path_old |-> HexPath(a.sender_path_old),
                            sender_path_new |-> HexPath(a.sender_path_new),
                            recipient_pubkey |-> field_to_hex(a.recipient_pubkey),
                            recipient_balance |-> field_to_hex(a.recipient_balance),
                            recipient_nonce |-> field_to_hex(a.recipient_nonce),
                            recipient_index |-> field_to_hex(a.recipient_index),
                            recipient_path_old |-> HexPath(a.recipient_path_old),
                            recipient_path_new |-> HexPath(a.recipient_path_new),
                            amount |-> field_to_hex(a.amount)])]

\* paths of TREE_DEPTH - 1, TREE_DEPTH and TREE_DEPTH + 1 siblings, all
\* different within one path
PathStarts == 2

Paths ==
    {[i \in 1..len |-> F(start + i)] :
         len \in (TREE_DEPTH - 1)..(TREE_DEPTH + 1), start \in 1..PathStarts}

InitWitness ==
    /\ tree = MerkleTree_new
    /\ db = EmptyDb
    /\ used_nullifiers = {}
    /\ chain = <<>>
    /\ cmd = IdleCmd
    /\ ops = 0
    /\ res = [op |-> "init", status |-> "Ok", arg |-> None, clean |-> TRUE]
    /\ \E sender_path_old \in Paths, sender_path_new \in Paths,
          recipient_path_old \in Paths, recipient_path_new \in Paths :
         first = Some([old_state_root |-> F(1), new_state_root |-> F(2),
                       nullifier |-> F(3), sender_secret |-> F(MySecret),
                       sender_balance |-> F(2), sender_nonce |-> F(0),
                       sender_index |-> F(0),
                       sender_path_old |-> sender_path_old,
                       sender_path_new |-> sender_path_new,
                       recipient_pubkey |-> F(4), recipient_balance |-> F(0),
                       recipient_nonce |-> F(0), recipient_index |-> F(1),
                       recipient_path_old |-> recipient_path_old,
                       recipient_path_new |-> recipient_path_new,
                       amount |-> F(1)])

WitnessWithdraw ==
    /\ \E a \in {first[1]} :
       \E r \in {WithdrawWitness_new(a.old_state_root, a.nullifier, a.amount,
                                     a.recipient_pubkey, a.sender_secret,
                                     a.sender_balance, a.sender_nonce,
                                     a.sender_index, a.sender_path_old)} :
          res' = [op |-> "WithdrawWitness", status |-> r.status, arg |-> r.witness,
                  clean |-> TRUE]
    /\ UNCHANGED <<tree, db, used_nullifiers, chain, cmd, ops, first>>

WitnessTransfer ==
    /\ \E a \in {first[1]} :
       \E r \in {TransferWitness_new(a.old_state_root, a.nullifier, a.sender_secret,
                                     a.sender_balance, a.sender_nonce,
                                     a.sender_index, a.sender_path_old,
                                     a.recipient_pubkey, a.amount)} :
          res' = [op |-> "TransferWitness", status |-> r.status, arg |-> r.witness,
                  clean |-> TRUE]
    /\ UNCHANGED <<tree, db, used_nullifiers, chain, cmd, ops, first>>

WitnessFullTransfer ==
    /\ \E r \in {FullTransferWitness_new(first[1])} :
          res' = [op |-> "FullTransferWitness", status |-> r.status, arg |-> r.witness,
                  clean |-> TRUE]
    /\ UNCHANGED <<tree, db, used_nullifiers, chain, cmd, ops, first>>

NextWitness == WitnessWithdraw \/ WitnessTransfer \/ WitnessFullTransfer

SpecWitness == InitWitness /\ [][NextWitness]_vars

\* the Merkle paths a constructor is given, by field name
PathFields(op) ==
    IF op = "FullTransferWitness"
    THEN {"sender_path_old", "sender_path_new", "recipient_path_old",
          "recipient_path_new"}
    ELSE {"sender_path_old"}

\* the field of the witness that carries the given path
EmittedPath(op, witness, field) ==
    IF op = "WithdrawWitness" THEN witness.path
    ELSE IF op = "TransferWitness" THEN witness.sender_path
    ELSE witness[field]

\* C26: each of the three constructors returns InvalidInput and no witness
\* when one of its Merkle paths has a length other than TREE_DEPTH, and
\* otherwise a witness whose paths have exactly TREE_DEPTH entries, entry i
\* being the hex form of the i-th sibling given
C26_WitnessPathLength ==
    res.op \in {"WithdrawWitness", "TransferWitness", "FullTransferWitness"} =>
        IF \E field \in PathFields(res.op) : Len(first[1][field]) # TREE_DEPTH
        THEN res.status = "InvalidInput" /\ res.arg = None
        ELSE /\ res.status = "Ok"
             /\ res.arg # None
             /\ \A field \in PathFields(res.op) :
                  LET emitted == EmittedPath(res.op, res.arg[1], field)
                  IN /\ Len(emitted) = TREE_DEPTH
                     /\ \A i \in 1..TREE_DEPTH :
                          emitted[i] = field_to_hex(first[1][field][i])

\* the four-path constructor refuses a call whose last path alone is short
C26_Witness ==
    /\ res.op = "FullTransferWitness"
    /\ res.status = "InvalidInput"
    /\ Len(first[1].sender_path_old) = TREE_DEPTH
    /\ Len(first[1].sender_path_new) = TREE_DEPTH
    /\ Len(first[1].recipient_path_old) = TREE_DEPTH
    /\ Len(first[1].recipient_path_new) = TREE_DEPTH - 1

\* --------------------------------------- the withdrawal recipient as field
\* An address is its 20 bytes; a u128 and the field element made from it are
\* their big-endian bytes (the values do not fit the model's integers).
\* `first` holds the address, res.arg the 32-byte encoding of the element.
recipient_field(recipient_address) ==
    LET bytes == [i \in 1..16 |-> IF i <= 4 THEN 0 ELSE recipient_address[i - 4]]
    IN [i \in 1..32 |-> IF i <= 16 THEN 0 ELSE bytes[i - 16]]

\* 0x1234567890abcdef1122334455667788aabbccdd
SampleAddress ==
    <<18, 52, 86, 120, 144, 171, 205, 239, 17, 34,
      51, 68, 85, 102, 119, 136, 170, 187, 204, 221>>

\* the sample address, and the addresses that keep at most two of its bytes
\* and are zero elsewhere
RecipientAddresses ==
    {SampleAddress} \cup
    {[i \in 1..20 |-> IF i \in {j, k} THEN SampleAddress[i] ELSE 0] :
         j \in 0..20, k \in 0..20}

InitRecipient ==
    /\ tree = MerkleTree_new
    /\ db = EmptyDb
    /\ used_nullifiers = {}
    /\ chain = <<>>
    /\ cmd = IdleCmd
    /\ ops = 0
    /\ res = [op |-> "init", status |-> "Ok", arg |-> None, clean |-> TRUE]
    /\ \E recipient_address \in RecipientAddresses : first = Some(recipient_address)

PackRecipient ==
    /\ res.op = "init"
    /\ res' = [op |-> "recipient_field", status |-> "Ok",
               arg |-> Some(recipient_field(first[1])), clean |-> TRUE]
    /\ UNCHANGED <<tree, db, used_nullifiers, chain, cmd, ops, first>>

SpecRecipient == InitRecipient /\ [][PackRecipient]_vars

\* C27: of the packed recipient, read as a 20-byte value, the upper 12 bytes
\* are the first 12 bytes of the address and the lower 8 bytes are zero
C27_RecipientPacking ==
    res.op = "recipient_field" =>
        LET packed == SubSeq(res.arg[1], 13, 32)
        IN /\ \A i \in 1..12 : packed[i] = first[1][i]
           /\ \A i \in 13..20 : packed[i] = 0

\* what the packing does: the first 12 address bytes are the lowest 12 bytes
\* of the element, every byte above them is zero and the last 8 address bytes
\* are left out
RecipientLowBytes ==
    res.op = "recipient_field" =>
        /\ \A i \in 1..20 : res.arg[1][i] = 0
        /\ \A i \in 1..12 : res.arg[1][20 + i] = first[1][i]

\* -------------------------------------------- VaultReader::get_all_events
\* The vault's logs are a sequence in on-chain order (by block, then by
\* position in the block); a log is its kind, its block and its position in
\* that sequence.  `first` holds the logs, res.arg the events returned.
RECURSIVE sort_by_block_number(_, _)
\* events.sort_by_key(|e| e.block_number()): a stable sort, here from block b up
sort_by_block_number(events, b) ==
    IF b > MaxLogBlock THEN <<>>
    ELSE SelectSeq(events, LAMBDA e : e.block_number = b)
             \o sort_by_block_number(events, b + 1)

get_all_events(logs, from_block, to_block) ==
    LET in_range == SelectSeq(logs, LAMBDA e : /\ e.block_number >= from_block
                                               /\ e.block_number <= to_block)
        deposits == SelectSeq(in_range, LAMBDA e : e.kind = "deposit")
        withdrawals == SelectSeq(in_range, LAMBDA e : e.kind = "withdrawal")
        state_updates == SelectSeq(in_range, LAMBDA e : e.kind = "root")
    IN sort_by_block_number(deposits \o withdrawals \o state_updates, 0)

InitEvents ==
    /\ tree = MerkleTree_new
    /\ db = EmptyDb
    /\ used_nullifiers = {}
    /\ chain = <<>>
    /\ cmd = IdleCmd
    /\ ops = 0
    /\ res = [op |-> "init", status |-> "Ok", arg |-> None, clean |-> TRUE]
    /\ \E n \in 0..MaxLogs :
       \E kinds \in [1..n -> {"deposit", "withdrawal", "root"}],
          blocks \in [1..n -> 1..MaxLogBlock] :
          /\ \A i \in 1..n : \A j \in 1..n : i < j => blocks[i] <= blocks[j]
          /\ first = Some([i \in 1..n |-> [kind |-> kinds[i], block_number |-> blocks[i],
                                           log_index |-> i]])

FetchEvents ==
    /\ \E from_block \in 1..MaxLogBlock :
          res' = [op |-> "get_all_events", status |-> "Ok",
                  arg |-> Some([from_block |-> from_block,
                                events |-> get_all_events(first[1], from_block,
                                                          MaxLogBlock)]),
                  clean |-> TRUE]
    /\ UNCHANGED <<tree, db, used_nullifiers, chain, cmd, ops, first>>

SpecEvents == InitEvents /\ [][FetchEvents]_vars

\* C33: the events of a batch come in on-chain order, by block and then by
\* position within the block, whatever their kinds
C33_OnChainOrder ==
    res.op = "get_all_events" =>
        LET events == res.arg[1].events
        IN \A i \in 1..Len(events) : \A j \in 1..Len(events) :
               i < j => events[i].log_index < events[j].log_index

\* what the sort gives: the events of the range, each once, ordered by block;
\* within a block deposits precede withdrawals, which precede root updates
OrderedByBlock ==
    res.op = "get_all_events" =>
        LET events == res.arg[1].events
            rank(e) == IF e.kind = "deposit" THEN 0
                       ELSE IF e.kind = "withdrawal" THEN 1 ELSE 2
        IN /\ {events[i] : i \in 1..Len(events)}
                = {first[1][i] : i \in {k \in 1..Len(first[1]) :
                                          first[1][k].block_number >= res.arg[1].from_block}}
           /\ \A i \in 1..Len(events) : \A j \in 1..Len(events) :
                i < j => /\ events[i] # events[j]
                         /\ events[i].block_number <= events[j].block_number
                         /\ events[i].block_number = events[j].block_number
                               => rank(events[i]) <= rank(events[j])

\* ----------------------------------------------- MerkleTree used directly
\* `first` keeps, for every inserted position, the leaf last written there
MerkleLeaves == {F(n) : n \in 1..MaxLeafValue}

MerkleInsert ==
    /\ \E leaf \in MerkleLeaves :
         \E r \in {insert(tree, leaf)} :
            IF r.ok
            THEN /\ tree' = r.tree
                 /\ first' = Append(first, leaf)
                 /\ res' = [op |-> "insert", status |-> "Ok",
                            arg |-> Some(r.index), clean |-> TRUE]
            ELSE /\ res' = [op |-> "insert", status |-> "TreeFull",
                            arg |-> None, clean |-> TRUE]
                 /\ UNCHANGED <<tree, first>>
    /\ UNCHANGED <<db, used_nullifiers, chain, cmd, ops>>

MerkleUpdate ==
    /\ \E index \in 0..(MAX_LEAVES - 1), leaf \in MerkleLeaves :
         /\ tree' = update_leaf(tree, index, leaf)
         /\ first' = IF index < Len(first) THEN [first EXCEPT ![index + 1] = leaf]
                     ELSE first
         /\ res' = [op |-> "update_leaf", status |-> "Ok",
                    arg |-> Some(<<index, leaf>>), clean |-> TRUE]
    /\ UNCHANGED <<db, used_nullifiers, chain, cmd, ops>>

NextMerkle == MerkleInsert \/ MerkleUpdate

SpecMerkle == Init /\ [][NextMerkle]_vars

\* C20: after any sequence of inserts, for every inserted index i the proof of i
\* has exactly TREE_DEPTH elements and verifies the i-th inserted leaf at index i
\* against the current root.
C20_MerkleRoundTrip ==
    /\ tree.leaf_count = Len(first)
    /\ \A i \in 0..(Len(first) - 1) :
          /\ Len(get_proof(tree, i)) = TREE_DEPTH
          /\ verify_proof(first[i + 1], i, get_proof(tree, i), tree.root)

\* a full tree holding different leaves, after a refused insert
C20_Witness ==
    /\ tree.leaf_count = MAX_LEAVES
    /\ res.status = "TreeFull"
    /\ \E i, j \in 1..Len(first) : first[i] # first[j]

\* C21: insert(leaf) stores the leaf at position leaf_count, returns that index
\* and raises leaf_count by exactly 1; at leaf_count = 2^D it returns TreeFull
\* and leaves leaf_count, the stored nodes and the root as they were.
C21_InsertContract ==
    [][res'.op = "insert" /\ (res' # res \/ tree' # tree) =>
          IF tree.leaf_count < MAX_LEAVES
          THEN /\ res'.status = "Ok"
               /\ res'.arg = Some(tree.leaf_count)
               /\ tree'.leaf_count = tree.leaf_count + 1
               /\ get_leaf(tree', tree.leaf_count) = Some(first'[Len(first')])
          ELSE /\ res'.status = "TreeFull"
               /\ tree' = tree]_vars

\* an insert was refused after the last free position had been filled by insert
\* over a leaf that update_leaf had put there before
C21_Witness ==
    /\ res.op = "insert"
    /\ res.status = "TreeFull"
    /\ tree.leaf_count = MAX_LEAVES
    /\ Len(first) = MAX_LEAVES
    /\ first[1] # first[MAX_LEAVES]

\* the leaf at a position: the stored one, or the empty leaf where none was written
LeafAt(t, index) ==
    IF get_leaf(t, index) # None THEN get_leaf(t, index)[1] ELSE empty_hash(0)

\* C22: for every inserted index i, verify_proof is false for every other leaf
\* at i, false for the leaf of i at every other index j (indices are u64, so j
\* is not limited to the tree), and false for a proof of any other length.
C22_VerifyRejects ==
    \A i \in 0..(tree.leaf_count - 1) :
        LET proof == get_proof(tree, i)
            leaf == LeafAt(tree, i)
        IN /\ \A other \in (MerkleLeaves \cup {empty_hash(0)}) \ {leaf} :
                 ~verify_proof(other, i, proof, tree.root)
           /\ \A j \in (0..(2 * MAX_LEAVES - 1)) \ {i} :
                 ~verify_proof(leaf, j, proof, tree.root)
           /\ ~verify_proof(leaf, i, SubSeq(proof, 1, TREE_DEPTH - 1), tree.root)
           /\ ~verify_proof(leaf, i, Append(proof, empty_hash(0)), tree.root)

\* the tree the stored leaves stand for: every unwritten position holds E[0]
RECURSIVE Subtree(_, _, _)
Subtree(t, level, index) ==
    IF level = 0 THEN LeafAt(t, index)
    ELSE hash2(Subtree(t, level - 1, 2 * index), Subtree(t, level - 1, 2 * index + 1))

\* C29: after every insert and update_leaf the written position holds the
\* written leaf and no other position changed, root() is the bottom-up hash of
\* the full tree with E[0] at every unwritten position, and proof(i) is the
\* sequence of the D siblings of i in that tree, leaf level first.
C29_RootOfFullTree ==
    [][/\ tree'.root = Subtree(tree', TREE_DEPTH, 0)
       /\ \A i \in 0..(MAX_LEAVES - 1) :
             /\ get_proof(tree', i)
                   = [level \in 1..TREE_DEPTH |->
                         Subtree(tree', level - 1,
                                 sibling_index(i \div (2 ^ (level - 1))))]
             /\ get_leaf(tree', i) =
                   IF res'.op = "update_leaf" /\ res'.arg[1][1] = i
                   THEN Some(res'.arg[1][2])
                   ELSE IF res'.op = "insert" /\ res'.status = "Ok"
                           /\ res'.arg[1] = i
                   THEN Some(first'[Len(first')])
                   ELSE get_leaf(tree, i)]_vars

\* update_leaf wrote beyond leaf_count and an insert has since passed a position
\* that is still empty next to a written one
C29_Witness ==
    /\ res.op = "update_leaf"
    /\ res.arg[1][1] > tree.leaf_count
    /\ tree.leaf_count > 0
    /\ get_leaf(tree, tree.leaf_count) = None

\* C38: leaf_count never decreases and is the next free position: every
\* position holding a written leaf is below leaf_count, and a successful insert
\* writes a position that held no leaf
C38_LeafCountNextFree ==
    [][/\ tree'.leaf_count >= tree.leaf_count
       /\ \A i \in 0..(MAX_LEAVES - 1) :
             get_leaf(tree', i) # None => i < tree'.leaf_count
       /\ (res'.op = "insert" /\ res'.status = "Ok")
             => get_leaf(tree, tree.leaf_count) = None]_vars

\* what holds of leaf_count: it never decreases, an insert raises it by one
\* and writes position leaf_count, an update leaves it alone
LeafCountSteps ==
    [][/\ tree'.leaf_count >= tree.leaf_count
       /\ (res'.op = "insert" /\ res'.status = "Ok")
             => /\ tree'.leaf_count = tree.leaf_count + 1
                /\ res'.arg = Some(tree.leaf_count)
                /\ get_leaf(tree', tree.leaf_count) # None
       /\ res'.op = "update_leaf" => tree'.leaf_count = tree.leaf_count]_vars

\* ------------------------------------------------- transfer and withdraw
\* a spend that leaves the nonce where it was
spent_keeping_nonce(account, amount) == [account EXCEPT !.balance = @ - amount]

\* a spend that counts twice
spent_skipping_nonce(account, amount) ==
    [account EXCEPT !.balance = @ - amount, !.nonce = @ + 2]

\* sender_updated / account_updated: balance -= amount_wei; nonce += 1
spent(account, amount) ==
    [account EXCEPT !.balance = @ - amount, !.nonce = @ + 1]

\* the two writes in the opposite order
record_spend_mark_first(sm, account, amount, nullifier, fail_update, fail_mark) ==
    Eval(mark_nullifier_used(sm, nullifier, fail_mark),
         LAMBDA marked :
             IF marked.status # "Ok" THEN [sm |-> sm, status |-> marked.status]
             ELSE Eval(update_account(marked.sm, spent(account, amount), fail_update),
                       LAMBDA updated : [sm |-> updated.sm, status |-> updated.status]))

\* the local bookkeeping both commands end with: update_account(..)? then
\* mark_nullifier_used(..)?
record_spend(sm, account, amount, nullifier, fail_update, fail_mark) ==
    Eval(update_account(sm, spent(account, amount), fail_update),
         LAMBDA updated :
             IF updated.status # "Ok" THEN [sm |-> sm, status |-> updated.status]
             ELSE Eval(mark_nullifier_used(updated.sm, nullifier, fail_mark),
                       LAMBDA marked : [sm |-> marked.sm, status |-> marked.status]))

\* VaultReader::is_nullifier_used
vault_is_nullifier_used(nullifier) ==
    \E n \in 1..Len(chain) :
        chain[n].kind = "withdrawal" /\ chain[n].nullifier = nullifier

\* what a spend command leaves in res: the account it loaded, the amount, the
\* nullifier and the root it computed.  `clean` stays TRUE while no spend has
\* stopped between its first effect and its last.
Spend(op, status, loaded, amount, clean) ==
    [op |-> op, status |-> status,
     arg |-> Some([before |-> loaded.account, amount |-> amount,
                   nullifier |-> loaded.nullifier, root |-> loaded.root]),
     clean |-> res.clean /\ clean]

\* the common opening of both commands: StateManager::new, get_account, the
\* balance test, compute_nullifier, state_root
load_spend(opened, amount) ==
    LET found == get_account(opened.sm, MyPubkey)
        root == state_root(opened.sm)
    IN IF ~opened.ok
       THEN [status |-> "TreeFull", sm |-> opened.sm, account |-> None,
             nullifier |-> NoBytes, root |-> root]
       ELSE IF found = None
       THEN [status |-> "AccountNotFound", sm |-> opened.sm, account |-> None,
             nullifier |-> NoBytes, root |-> root]
       ELSE [status |-> IF found[1].balance < amount
                        THEN "InsufficientBalance" ELSE "Ok",
             sm |-> opened.sm, account |-> found,
             nullifier |-> field_to_bytes(compute_nullifier(
                               MySecret, u64_to_field(found[1].index),
                               u64_to_field(found[1].nonce))),
             root |-> root]

\* how far a spend command gets once the account is loaded and the balance
\* suffices: the prover fails, --dry-run stops it, the vault call fails, a
\* local write fails, or it completes
TransferOutcomes == {"ProofFailed", "DryRun", "UpdateFailed", "MarkFailed", "Ok"}

WithdrawOutcomes == TransferOutcomes \cup {"TxFailed"}

\* commands::transfer::run
Transfer ==
    /\ ~Running
    /\ \E opened \in {StateManager_new(db)}, amount \in Amounts :
       \E loaded \in {load_spend(opened, amount)} :
          IF loaded.status # "Ok"
          THEN UNCHANGED <<tree, db, used_nullifiers, res>>
          ELSE \E outcome \in TransferOutcomes :
                 IF outcome \in {"ProofFailed", "DryRun"}
                 THEN UNCHANGED <<tree, db, used_nullifiers, res>>
                 ELSE /\ loaded.account[1].nonce <= MaxNonce
                      /\ \E r \in {record_spend(loaded.sm, loaded.account[1], amount,
                                                 loaded.nullifier,
                                                 outcome = "UpdateFailed",
                                                 outcome = "MarkFailed")} :
                            /\ Install(r.sm)
                            /\ res' = Spend("transfer", r.status, loaded, amount,
                                            r.status = "Ok" \/ r.sm.db = db)
    /\ UNCHANGED <<chain, cmd, ops, first>>

\* commands::withdraw::run
Withdraw ==
    /\ ~Running
    /\ \E opened \in {StateManager_new(db)}, amount \in Amounts :
       \E loaded \in {load_spend(opened, amount)} :
          IF loaded.status # "Ok"
          THEN UNCHANGED <<tree, db, used_nullifiers, chain, res>>
          ELSE \E outcome \in WithdrawOutcomes :
                 IF outcome \in {"ProofFailed", "DryRun"}
                 THEN UNCHANGED <<tree, db, used_nullifiers, chain, res>>
                 ELSE IF vault_is_nullifier_used(loaded.nullifier)
                 THEN UNCHANGED <<tree, db, used_nullifiers, chain, res>>
                 ELSE IF outcome = "TxFailed"
                 THEN UNCHANGED <<tree, db, used_nullifiers, chain, res>>
                 ELSE /\ loaded.account[1].nonce <= MaxNonce
                      /\ Len(chain) < MaxWalletChain
                      /\ chain' = Append(chain, WithdrawalEvent(loaded.nullifier))
                      /\ \E r \in {record_spend(loaded.sm, loaded.account[1], amount,
                                                 loaded.nullifier,
                                                 outcome = "UpdateFailed",
                                                 outcome = "MarkFailed")} :
                            /\ Install(r.sm)
                            /\ res' = Spend("withdraw", r.status, loaded, amount,
                                            r.status = "Ok")
    /\ UNCHANGED <<cmd, ops, first>>

\* a withdrawal made by another holder of the vault
ForeignNullifiers ==
    {field_to_bytes(compute_nullifier(ForeignSecret, u64_to_field(i), u64_to_field(0))) :
        i \in 0..(MaxNullifiers - 1)}

ForeignWithdrawal ==
    \E nullifier \in ForeignNullifiers :
        /\ Len(chain) < MaxWalletChain
        /\ ~vault_is_nullifier_used(nullifier)
        /\ chain' = Append(chain, WithdrawalEvent(nullifier))
        /\ UNCHANGED <<tree, db, used_nullifiers, res, cmd, ops, first>>

\* a deposit while the wallet also spends
WalletDeposit ==
    /\ Len(chain) < MaxWalletChain
    /\ ChainDeposit

NextWallet ==
    \/ WalletDeposit
    \/ ForeignWithdrawal
    \/ RpcStart
    \/ RpcApplyEvent
    \/ RpcCheckpoint
    \/ IndexerStart
    \/ IndexerApplyLeaf
    \/ IndexerMarkNullifier
    \/ IndexerFinish
    \/ WatchStart
    \/ WatchPoll
    \/ WatchApplyEvent
    \/ WatchCheckpoint
    \/ Abort
    \/ Transfer
    \/ Withdraw

SpecWallet == Init /\ [][NextWallet]_vars

\* ------------------------------------ the spend commands, every outcome
\* The same two commands with the runs that stop before their writes recorded
\* in res as well; such a run leaves the state manager as it loaded it.
spend_effect_before_proof(loaded, amount, outcome) ==
    record_spend(loaded.sm, loaded.account[1], amount, loaded.nullifier, FALSE, FALSE)

\* what a run that loaded its account does to its state manager
spend_effect(loaded, amount, outcome) ==
    IF outcome \in {"ProofFailed", "DryRun", "NullifierUsedOnChain", "TxFailed"}
    THEN [sm |-> loaded.sm, status |-> outcome]
    ELSE record_spend(loaded.sm, loaded.account[1], amount, loaded.nullifier,
                      outcome = "UpdateFailed", outcome = "MarkFailed")

TransferAny ==
    /\ ~Running
    /\ \E opened \in {StateManager_new(db)}, amount \in Amounts :
       \E loaded \in {load_spend(opened, amount)} :
          IF loaded.status # "Ok"
          THEN /\ Install(loaded.sm)
               /\ res' = Spend("transfer", loaded.status, loaded, amount, TRUE)
          ELSE \E outcome \in TransferOutcomes :
                 /\ loaded.account[1].nonce <= MaxNonce
                 /\ \E r \in {spend_effect(loaded, amount, outcome)} :
                       /\ Install(r.sm)
                       /\ res' = Spend("transfer", r.status, loaded, amount,
                                       r.status = "Ok" \/ r.sm.db = db)
    /\ UNCHANGED <<chain, cmd, ops, first>>

WithdrawAny ==
    /\ ~Running
    /\ \E opened \in {StateManager_new(db)}, amount \in Amounts :
       \E loaded \in {load_spend(opened, amount)} :
          IF loaded.status # "Ok"
          THEN /\ Install(loaded.sm)
               /\ res' = Spend("withdraw", loaded.status, loaded, amount, TRUE)
               /\ UNCHANGED chain
          ELSE \E chosen \in WithdrawOutcomes :
               \E outcome \in {IF chosen \in {"ProofFailed", "DryRun"} THEN chosen
                               ELSE IF vault_is_nullifier_used(loaded.nullifier)
                                    THEN "NullifierUsedOnChain" ELSE chosen} :
                 /\ loaded.account[1].nonce <= MaxNonce
                 /\ \E r \in {spend_effect(loaded, amount, outcome)} :
                       /\ Install(r.sm)
                       /\ res' = Spend("withdraw", r.status, loaded, amount,
                                       r.sm.db = db \/ r.status = "Ok")
                 /\ IF outcome \in {"ProofFailed", "DryRun", "NullifierUsedOnChain",
                                    "TxFailed"}
                    THEN UNCHANGED chain
                    ELSE /\ Len(chain) < MaxWalletChain
                         /\ chain' = Append(chain, WithdrawalEvent(loaded.nullifier))
    /\ UNCHANGED <<cmd, ops, first>>

NextSpend ==
    \/ WalletDeposit
    \/ RpcStart
    \/ RpcApplyEvent
    \/ RpcCheckpoint
    \/ Abort
    \/ TransferAny
    \/ WithdrawAny

SpecSpend == Init /\ [][NextSpend]_vars

\* C36 (the steps of the two commands are those that leave a spend in res and
\* put no deposit on chain): a transfer or withdraw that ends without an account, with an amount
\* above the balance, with a prover failure, as a dry run, with its nullifier
\* used on chain or with a rejected transaction leaves the stored accounts,
\* nullifiers and checkpoint as they were and its tree and nullifier set as
\* loaded; a run that changes the store has passed all of these (it completed
\* or failed in one of its two writes), and a withdraw that changes it has put
\* its withdrawal on chain in the same run.
C36_FailedSpendNoEffect ==
    [][(/\ res'.op \in {"transfer", "withdraw"}
        /\ chain' # chain => chain'[Len(chain')].kind = "withdrawal")
          => /\ res'.status \in {"TreeFull", "AccountNotFound", "InsufficientBalance",
                                 "ProofFailed", "DryRun", "NullifierUsedOnChain",
                                 "TxFailed"}
                  => /\ db' = db
                     /\ chain' = chain
                     /\ tree'.root = res'.arg[1].root
                     /\ tree' = StateManager_new(db).sm.tree
                     /\ used_nullifiers' = db.nullifiers
             /\ db' # db
                  => /\ res'.status \in {"Ok", "Storage", "NullifierUsed"}
                     /\ res'.arg[1].before # None
                     /\ res'.arg[1].before[1].balance >= res'.arg[1].amount
                     /\ res'.op = "withdraw"
                           => chain' = Append(chain,
                                              WithdrawalEvent(res'.arg[1].nullifier))]_vars

\* a withdraw whose transaction was rejected, on an account that could pay
C36_Witness ==
    /\ res.op = "withdraw"
    /\ res.status = "TxFailed"
    /\ res.arg[1].before[1].balance >= res.arg[1].amount
    /\ res.arg[1].before[1] \in db.accounts

\* ------------------------------------------------ claims about the spends
SpendCompleted == res.op \in {"transfer", "withdraw"} /\ res.status = "Ok"

\* the nullifier the next spend of the holder's account computes
NextNullifier(account) ==
    field_to_bytes(compute_nullifier(MySecret, u64_to_field(account.index),
                                     u64_to_field(account.nonce)))

\* C13: a completed transfer or withdraw of amount a from an account with balance
\* B >= a and nonce n stores balance B - a and nonce n + 1, sets the tree leaf at
\* the account's index to H3(pubkey, B - a, n + 1), changes the root, and puts the
\* nullifier H3(secret, index, n) into the used set.
C13_CompletedSpend ==
    SpendCompleted =>
        LET before == res.arg[1].before[1]
            a == res.arg[1].amount
            after == get_account(SM, before.pubkey)
        IN /\ before.balance >= a
           /\ after # None
           /\ after[1].balance = before.balance - a
           /\ after[1].nonce = before.nonce + 1
           /\ get_leaf(tree, before.index)
                  = Some(compute_leaf(bytes_to_field(before.pubkey),
                                      u128_to_field(before.balance - a),
                                      u64_to_field(before.nonce + 1)))
           /\ tree.root # res.arg[1].root
           /\ NextNullifier(before) \in used_nullifiers
           /\ NextNullifier(before) \in db.nullifiers

\* a completed withdraw that emptied the account
C13_Witness ==
    /\ SpendCompleted
    /\ res.op = "withdraw"
    /\ res.arg[1].before[1].balance = res.arg[1].amount
    /\ get_account(SM, MyPubkey)[1].balance = 0

\* C14: while every spend so far has completed, the nullifier the next spend
\* computes, H3(secret, index, nonce), is not in the local used set (neither
\* the stored one nor the loaded one), and no spend has failed with
\* NullifierUsed, whatever syncs and reopens happened in between.
C14_FreshNullifier ==
    res.clean =>
        /\ res.status # "NullifierUsed"
        /\ \A account \in db.accounts :
              account.pubkey = MyPubkey =>
                  /\ NextNullifier(account) \notin db.nullifiers
                  /\ NextNullifier(account) \notin used_nullifiers

\* a second completed spend, made after a sync that saw the first one on chain
C14_Witness ==
    /\ SpendCompleted
    /\ res.clean
    /\ res.op = "transfer"
    /\ res.arg[1].before[1].nonce = 1
    /\ ops = MaxRuns
    /\ \E n \in 1..Len(chain) :
          /\ chain[n].kind = "withdrawal"
          /\ chain[n].nullifier \in db.nullifiers
          /\ chain[n].nullifier # res.arg[1].nullifier

\* C18: in every step the stored nonce of an account does not decrease; it
\* changes only in a transfer or withdraw step, by exactly 1, and every
\* completed spend changes it; sync steps (credits) leave it alone.
C18_NonceMonotone ==
    [][\A account \in db.accounts : \A later \in db'.accounts :
          later.pubkey = account.pubkey =>
              /\ later.nonce >= account.nonce
              /\ later.nonce # account.nonce =>
                    /\ later.nonce = account.nonce + 1
                    /\ res'.op \in {"transfer", "withdraw"}
                    /\ account = res'.arg[1].before[1]
              /\ (res' # res /\ res'.op \in {"transfer", "withdraw"}
                     /\ res'.status = "Ok" /\ account.pubkey = MyPubkey)
                    => later.nonce = account.nonce + 1]_vars

\* a sync credited the account after a spend had advanced its nonce
C18_Witness ==
    /\ res.op \in {"sync_via_rpc", "sync_via_indexer", "watch"}
    /\ get_account(SM, MyPubkey) # None
    /\ get_account(SM, MyPubkey)[1].nonce = 1
    /\ get_account(SM, MyPubkey)[1].balance > 0
    /\ Running
    /\ Len(cmd.applied) > 0

\* C19: in every step each stored account keeps its pubkey and its index: the
\* lookup by that pubkey still finds an account and it has the same index, also
\* when credits, syncs, reopens or spends down to zero come in between.
C19_IndexImmutable ==
    [][\A account \in db.accounts :
          /\ get_account([tree |-> tree', db |-> db', used |-> used_nullifiers'],
                         account.pubkey) # None
          /\ get_account([tree |-> tree', db |-> db', used |-> used_nullifiers'],
                         account.pubkey)[1].index = account.index]_vars

\* the account, spent down to zero, is found again by a later sync
C19_Witness ==
    /\ get_account(SM, MyPubkey) # None
    /\ get_account(SM, MyPubkey)[1].balance = 0
    /\ get_account(SM, MyPubkey)[1].nonce > 0
    /\ res.op \in {"sync_via_rpc", "sync_via_indexer", "watch"}
    /\ cmd.pc = "done"

\* C34: a spend debits the account (row and leaf) before it marks its
\* nullifier: whenever a step of transfer or withdraw adds a nullifier to the
\* stored or the loaded used set, that nullifier is the one of the account the
\* spend loaded, and the step leaves the account debited by the amount, with the
\* debited leaf in the tree; this includes the spends that stop between the two
\* writes.
C34_DebitBeforeMark ==
    [][res'.op \in {"transfer", "withdraw"}
          => \A n \in (db'.nullifiers \cup used_nullifiers')
                         \ (db.nullifiers \cup used_nullifiers) :
                LET before == res'.arg[1].before[1]
                    after == spent(before, res'.arg[1].amount)
                IN /\ n = NextNullifier(before)
                   /\ before \in db.accounts
                   /\ after \in db'.accounts
                   /\ get_leaf(tree', before.index) = Some(account_compute_leaf(after))]_vars

\* a spend stopped after the debit and before the nullifier was stored
C34_Witness ==
    /\ res.op \in {"transfer", "withdraw"}
    /\ res.status # "Ok"
    /\ spent(res.arg[1].before[1], res.arg[1].amount) \in db.accounts
    /\ NextNullifier(res.arg[1].before[1]) \notin db.nullifiers

\* C35: once a sync run (log scan or snapshot) started after the holder's
\* last spend has completed with the checkpoint at the chain head, the nullifier of every spend the stored nonce
\* counts is in the used set, also when the spend stopped between its debit and
\* its nullifier write, and the sync did not fail with NullifierUsed
C35_CrashRecovered ==
    (/\ res.op \in {"sync_via_rpc", "sync_via_indexer"}
     /\ cmd.pc = "done"
     /\ db.checkpoint = Some(Len(chain)))
        => /\ res.status # "NullifierUsed"
           /\ \A account \in db.accounts : \A k \in 0..(account.nonce - 1) :
                 account.pubkey = MyPubkey
                    => NextNullifier([account EXCEPT !.nonce = k]) \in used_nullifiers

\* the withdrawals' side of C35: a log scan that has run its batch loop up to
\* the chain head has every nullifier withdrawn on chain in the used set, the
\* stored one and the loaded one
WithdrawalsRecovered ==
    (res.op = "sync_via_rpc" /\ cmd.pc = "done" /\ cmd.from_block > Len(chain))
        => \A n \in 1..Len(chain) :
              chain[n].kind = "withdrawal"
                 => /\ chain[n].nullifier \in used_nullifiers
                    /\ chain[n].nullifier \in db.nullifiers

\* C17: the holder's stored balance always fits in the balance type, never
\* underflows and never wraps: no sync step ends in an arithmetic overflow, a
\* step that keeps the nonce (a credit in either sync path) never lowers the
\* balance, and a step that advances the nonce (a spend) lowers the balance by
\* an amount that is at most the balance it found.
C17_BalanceNeverWraps ==
    [][/\ res'.status # "Overflow"
       /\ \A later \in db'.accounts : later.balance \in 0..U128_MAX
       /\ \A account \in db.accounts : \A later \in db'.accounts :
             later.pubkey = account.pubkey =>
                 IF later.nonce # account.nonce
                 THEN /\ res'.op \in {"transfer", "withdraw"}
                      /\ res'.arg[1].amount <= account.balance
                      /\ later.balance = account.balance - res'.arg[1].amount
                 ELSE later.balance >= account.balance]_vars

====
